---- MODULE Spec2Model ----
(***************************************************************************)
(* A model of the jx command handlers whose conditional logic wraps calls  *)
(* to external collaborators (Kubernetes API, git provider API):           *)
(*   - update webhooks      (UpdateWebhooksOptions, src/unnamed/part_004)  *)
(*   - create devpod        (CreateDevPodOptions,   src/unnamed/part_000)  *)
(*   - step verify preinstall (StepVerifyPreInstallOptions, part_004),     *)
(*     with its gatherRequirements and verifyProwConfigMaps                *)
(* External collaborators are modelled by their observable results: every  *)
(* call may succeed or fail, and what it returns is drawn from a small set.*)
(* Strings that the code only compares for equality are TLA+ strings;      *)
(* strings the code inspects (prefix, substring) are sequences of          *)
(* one-character strings.                                                  *)
(***************************************************************************)
EXTENDS Integers, Sequences, FiniteSets, TLC

VARIABLES
    \* ---- update webhooks ----
    whO,        \* UpdateWebhooksOptions: the flags of the command
    whPc,       \* position of UpdateWebhooksOptions.Run
    whN,        \* len(srList.Items)
    whIdx,      \* index of the loop over srList.Items (0-based count of finished items)
    whCur,      \* the SourceRepository of the current iteration
    whLast,     \* the UpdateWebhookForSourceRepository call of the last iteration: its
                \* position in the list, argument, result and git provider calls
    whResult,   \* what Run returned
    \* ---- updateRepoHook / matchesWebhookURL applied to drawn inputs ----
    hkCall,     \* the last call: inputs and outputs
    \* ---- create devpod ----
    dpO,        \* CreateDevPodOptions: the flags of the command
    dpPc,       \* position of CreateDevPodOptions.Run
    dpDir,      \* dir
    dpImportURL,\* importURL
    dpGitLabels,\* gitLabels.gitLabels, a map that is nil until populateFromGitInfo
    dpCreate,   \* create
    dpPod,      \* pod
    dpName,     \* name
    dpLabel,    \* label
    dpFind,     \* the call of findDevPodBySelector that Run has just made, if any:
                \* which of the two it is, the selector, the pods listed, the answer
    dpCalls,    \* the calls made to create the kube client and to the Kubernetes API, in order
    dpResult,   \* what Run returned ("panic" when it panicked)
    \* ---- step verify preinstall ----
    piReq,      \* the requirements and flags StepVerifyPreInstallOptions.Run works with
    piLazy,     \* o.LazyCreate
    piPc,       \* position of StepVerifyPreInstallOptions.Run
    piDevNs,    \* the dev namespace verifications and creations made, with their outcomes
    piKaniko,   \* the Kaniko secret validations and creations made, with their outcomes
    piVelero,   \* the Velero secret validations and creations made, with their outcomes
    piResult,   \* what Run returned
    \* ---- verifyProwConfigMaps against a Kubernetes API other processes write to ----
    cmStore,    \* the ConfigMaps of the namespace, by name
    cmFirst,    \* by name, who first put the key into the ConfigMap and with which value
    cmIdx,      \* which of the two verifyConfigMapExists calls is running
    cmPc,       \* position of verifyConfigMapExists
    cmLocal,    \* cm, the verifier's copy of the ConfigMap
    cmOps,      \* the API calls of the running verifyConfigMapExists, with their outcomes
    cmResult,   \* what verifyProwConfigMaps returned
    \* ---- gatherRequirements ----
    grIn,       \* the requirements file and the flags
    grPc,       \* position of gatherRequirements
    grReq,      \* requirements, as modified so far
    grAuto,     \* autoAcceptDefaults
    grConnected,\* whether a cluster connection was made
    grSaved,    \* whether the requirements file was written
    grResult,    \* what gatherRequirements returned
    \* ---- ValidateRequirements ----
    vrIn, \* the requirements ValidateRequirements was called with
    vrReq, \* requirements, as modified so far
    vrPc, \* position of ValidateRequirements
    vrSaves, \* the SaveConfig calls made, each with its reason
    vrResult, \* what ValidateRequirements returned
    \* ---- step verify git ----
    gvCfg, \* whether GitHub App mode is on, --github-app-owner, config.PipeLineServer and config.PipeLineUsername
    gvPc, \* position of StepVerifyGitOptions.Run
    gvN, \* len(config.Servers)
    gvI, \* index of the loop over the servers
    gvServer, \* the server of the current iteration: its URL and the number of its users
    gvJ, \* index of the loop over server.Users
    gvValid, \* pipeUserValid
    gvSeen, \* the users verified so far, with what was found for each
    gvResult, \* what Run returned
    \* ---- step verify ingress ----
    igIn, \* the requirements file as loaded
    igReq, \* requirements, as modified so far
    igLazy, \* o.LazyCreate
    igPc, \* position of StepVerifyIngressOptions.Run
    igSaves, \* the SaveConfig calls made, each with its place in the code
    igResult, \* what Run returned
    \* ---- verifyIngress and SaveConfig ----
    viIn, \* the requirements verifyIngress was called with, and whether they use a helmfile
    viReq, \* requirements, as modified so far
    viFiles, \* what the requirements file and the requirements values file hold
    viSaves, \* the SaveConfig calls made, each with the requirements it was given
    viPc, \* position of verifyIngress
    viResult \* what verifyIngress returned

whVars == <<whO, whPc, whN, whIdx, whCur, whLast, whResult>>
hkVars == <<hkCall>>
dpVars == <<dpO, dpPc, dpDir, dpImportURL, dpGitLabels, dpCreate, dpPod, dpName, dpLabel, dpFind,
            dpCalls, dpResult>>
piVars == <<piReq, piLazy, piPc, piDevNs, piKaniko, piVelero, piResult>>
cmVars == <<cmStore, cmFirst, cmIdx, cmPc, cmLocal, cmOps, cmResult>>
grVars == <<grIn, grPc, grReq, grAuto, grConnected, grSaved, grResult>>
vrVars == <<vrIn, vrReq, vrPc, vrSaves, vrResult>>
gvVars == <<gvCfg, gvPc, gvN, gvI, gvServer, gvJ, gvValid, gvSeen, gvResult>>
igVars == <<igIn, igReq, igLazy, igPc, igSaves, igResult>>
viVars == <<viIn, viReq, viFiles, viSaves, viPc, viResult>>
vars == <<whVars, hkVars, dpVars, piVars, cmVars, grVars, vrVars, gvVars, igVars, viVars>>
\* what each command leaves alone: the state of the other commands
whOthers == <<hkVars, dpVars, piVars, cmVars, grVars, vrVars, gvVars, igVars, viVars>>
hkOthers == <<dpVars, piVars, cmVars, grVars, vrVars, gvVars, igVars, viVars>>
dpOthers == <<whVars, hkVars, piVars, cmVars, grVars, vrVars, gvVars, igVars, viVars>>
piOthers == <<whVars, hkVars, dpVars, cmVars, grVars, vrVars, gvVars, igVars, viVars>>
cmOthers == <<whVars, hkVars, dpVars, piVars, grVars, vrVars, gvVars, igVars, viVars>>
grOthers == <<whVars, hkVars, dpVars, piVars, cmVars, vrVars, gvVars, igVars, viVars>>
vrOthers == <<whVars, hkVars, dpVars, piVars, cmVars, grVars, gvVars, igVars, viVars>>
gvOthers == <<whVars, hkVars, dpVars, piVars, cmVars, grVars, vrVars, igVars, viVars>>
igOthers == <<whVars, hkVars, dpVars, piVars, cmVars, grVars, vrVars, gvVars, viVars>>
viOthers == <<whVars, hkVars, dpVars, piVars, cmVars, grVars, vrVars, gvVars, igVars>>

----------------------------------------------------------------------------
(* Bounds of the model *)

\* the longest list of existing webhooks ListWebHooks returns to updateRepoHook
MaxHooks == 2
\* the longest list of SourceRepositories
MaxRepos == 2
\* the longest list of existing webhooks per repository while Run loops
MaxRunHooks == 1
\* the longest list of pods Pods.List returns to findDevPodBySelector
MaxPods == 2

----------------------------------------------------------------------------
(* Strings as sequences of characters *)

\* strings.HasPrefix(s, prefix)
HasPrefix(s, prefix) ==
    /\ Len(prefix) <= Len(s)
    /\ SubSeq(s, 1, Len(prefix)) = prefix

\* strings.Contains(s, substr)
Contains(s, substr) ==
    \E i \in 0..(Len(s) - Len(substr)) : SubSeq(s, i + 1, i + Len(substr)) = substr

\* the literal "hook.jx"
HookJx == <<"h", "o", "o", "k", ".", "j", "x">>

\* "a/hook.jx", "a/hook.jx/v2", "b/hk", "o/hook.jx": webhook URLs of the model
UrlA == <<"a", "/">> \o HookJx
UrlALong == UrlA \o <<"/", "v", "2">>
UrlB == <<"b", "/", "h", "k">>
UrlOld == <<"o", "/">> \o HookJx

HookURLs == {UrlA, UrlALong, UrlB, UrlOld}
WebhookURLs == {UrlA, UrlB}
PreviousURLs == {<<>>, UrlOld, UrlA}
GitKinds == {"github", "gitlab"}

\* all sequences over S of length at most n
SeqsUpTo(S, n) == UNION {[1..k -> S] : k \in 0..n}

\* a list of existing webhooks (gits.GitWebHookArguments): the ID is the position
HooksOf(urls) == [i \in 1..Len(urls) |-> [ID |-> i, URL |-> urls[i]]]
HookLists(n) == {HooksOf(urls) : urls \in SeqsUpTo(HookURLs, n)}

\* while Run loops over the repositories: the webhook endpoint of the cluster,
\* and the existing webhooks of a repository
RunWebhookURL == UrlA
RunHookLists(n) == {HooksOf(urls) : urls \in SeqsUpTo({UrlA, UrlOld}, n)}

----------------------------------------------------------------------------
(* update webhooks *)

\* the flags: --owner, --repo, --exact-hook-url-match, --previous-hook-url, DryRun, --warn-on-fail
WebhookOptions ==
    [Org : {"", "o1"}, Repo : {"", "r1"}, ExactHookMatch : BOOLEAN,
     PreviousHookUrl : PreviousURLs, DryRun : BOOLEAN, WarnOnFail : BOOLEAN]

\* v1.SourceRepository: Spec.Org, Spec.Repo, and whether kube.IsRemoteEnvironmentRepository holds of it
SourceRepositories == [Org : {"o1", "o2"}, Repo : {"r1", "r2"}, Remote : BOOLEAN]

\* where ensureWebHookCreated meets its first error that makes it return, if any
FailPoints == {"none", "kind", "owner", "provider", "insecure", "call"}

\* a variant that looks at the git kind before the previous hook URL
MatchesWebhookURLKindFirst(o, kind, webhookURL, hookURL) ==
    IF kind = "gitlab" THEN HasPrefix(hookURL, webhookURL)
    ELSE IF o.PreviousHookUrl # <<>> THEN o.PreviousHookUrl = hookURL
    ELSE IF o.ExactHookMatch THEN webhookURL = hookURL
    ELSE Contains(hookURL, HookJx)

MatchesWebhookURL(o, kind, webhookURL, hookURL) ==
    IF o.PreviousHookUrl # <<>> THEN o.PreviousHookUrl = hookURL
    ELSE IF kind = "gitlab" THEN HasPrefix(hookURL, webhookURL)
    ELSE IF o.ExactHookMatch THEN webhookURL = hookURL
    ELSE Contains(hookURL, HookJx)

\* a variant that forgets the --repo filter
MatchesRepositoryOrgOnly(o, sr) ==
    IF o.Org # "" /\ o.Org # sr.Org THEN FALSE
    ELSE TRUE

MatchesRepository(o, sr) ==
    IF o.Org # "" /\ o.Org # sr.Org THEN FALSE
    ELSE IF o.Repo # "" /\ o.Repo # sr.Repo THEN FALSE
    ELSE TRUE

\* a variant of the loop that does not return after UpdateWebHook succeeded
RECURSIVE HookLoopNoReturn(_, _, _, _, _, _)
HookLoopNoReturn(o, kind, webhookURL, webhooks, i, callOk) ==
    IF i > Len(webhooks) THEN [calls |-> <<>>, returned |-> FALSE, err |-> ""]
    ELSE IF MatchesWebhookURL(o, kind, webhookURL, webhooks[i].URL) /\ ~o.DryRun
         THEN IF ~callOk
              THEN [calls |-> <<[op |-> "UpdateWebHook", ID |-> webhooks[i].ID]>>,
                    returned |-> TRUE, err |-> "updating the webhook"]
              ELSE LET rest == HookLoopNoReturn(o, kind, webhookURL, webhooks, i + 1, callOk)
                   IN  [calls |-> <<[op |-> "UpdateWebHook", ID |-> webhooks[i].ID]>> \o rest.calls,
                        returned |-> TRUE, err |-> ""]
         ELSE HookLoopNoReturn(o, kind, webhookURL, webhooks, i + 1, callOk)

\* the loop over the existing webhooks, from hook i on: the git provider calls
\* it makes, whether it returned from updateRepoHook, and the error returned
RECURSIVE HookLoop(_, _, _, _, _, _)
HookLoop(o, kind, webhookURL, webhooks, i, callOk) ==
    IF i > Len(webhooks) THEN [calls |-> <<>>, returned |-> FALSE, err |-> ""]
    ELSE IF MatchesWebhookURL(o, kind, webhookURL, webhooks[i].URL) /\ ~o.DryRun
         THEN [calls |-> <<[op |-> "UpdateWebHook", ID |-> webhooks[i].ID]>>,
               returned |-> TRUE,
               err |-> IF callOk THEN "" ELSE "updating the webhook"]
         ELSE HookLoop(o, kind, webhookURL, webhooks, i + 1, callOk)

\* updateRepoHook: list is what ListWebHooks returns ([ok, hooks]); failAt says
\* whether IsInsecureSSLWebhooks ("insecure") or UpdateWebHook/CreateWebHook ("call") fails
UpdateRepoHook(o, kind, webhookURL, list, failAt) ==
    LET listed == <<[op |-> "ListWebHooks", ID |-> 0]>>
        webhooks == IF list.ok THEN list.hooks ELSE <<>>
        loop == HookLoop(o, kind, webhookURL, webhooks, 1, failAt # "call")
    IN  IF failAt = "insecure"
        THEN [calls |-> listed, err |-> "failed to check if we need to setup insecure SSL webhook"]
        ELSE IF loop.returned
        THEN [calls |-> listed \o loop.calls, err |-> loop.err]
        ELSE IF ~o.DryRun
        THEN [calls |-> listed \o <<[op |-> "CreateWebHook", ID |-> 0]>>,
              err |-> IF failAt = "call" THEN "creating the webhook" ELSE ""]
        ELSE [calls |-> listed, err |-> ""]

EnsureWebHookCreated(o, kind, webhookURL, list, failAt) ==
    IF failAt = "kind" THEN [calls |-> <<>>, err |-> "failed to find Git Server kind"]
    ELSE IF failAt = "owner" THEN [calls |-> <<>>, err |-> "failed to find GitHub App owner"]
    ELSE IF failAt = "provider" THEN [calls |-> <<>>, err |-> "failed to find Git provider"]
    ELSE LET r == UpdateRepoHook(o, kind, webhookURL, list, failAt)
         IN  [calls |-> r.calls,
              err |-> IF r.err # "" THEN "failed to update webhooks" ELSE ""]

\* a variant that returns the error of ensureWebHookCreated whatever --warn-on-fail says
UpdateWebhookForSourceRepositoryNoWarn(o, sr, kind, webhookURL, list, failAt) ==
    IF MatchesRepository(o, sr)
    THEN IF sr.Remote
         THEN [calls |-> <<>>, ok |-> FALSE, err |-> "", failed |-> FALSE]
         ELSE LET r == EnsureWebHookCreated(o, kind, webhookURL, list, failAt)
              IN  IF r.err # ""
                  THEN [calls |-> r.calls, ok |-> FALSE, err |-> r.err, failed |-> TRUE]
                  ELSE [calls |-> r.calls, ok |-> TRUE, err |-> "", failed |-> FALSE]
    ELSE [calls |-> <<>>, ok |-> FALSE, err |-> "", failed |-> FALSE]

\* UpdateWebhookForSourceRepository: returns (ok, err); failed says whether
\* ensureWebHookCreated was called and returned an error (logged or returned)
UpdateWebhookForSourceRepository(o, sr, kind, webhookURL, list, failAt) ==
    IF MatchesRepository(o, sr)
    THEN IF sr.Remote
         THEN [calls |-> <<>>, ok |-> FALSE, err |-> "", failed |-> FALSE]
         ELSE LET r == EnsureWebHookCreated(o, kind, webhookURL, list, failAt)
              IN  IF r.err # ""
                  THEN IF o.WarnOnFail
                       THEN [calls |-> r.calls, ok |-> FALSE, err |-> "", failed |-> TRUE]
                       ELSE [calls |-> r.calls, ok |-> FALSE, err |-> r.err, failed |-> TRUE]
                  ELSE [calls |-> r.calls, ok |-> TRUE, err |-> "", failed |-> FALSE]
    ELSE [calls |-> <<>>, ok |-> FALSE, err |-> "", failed |-> FALSE]

NoRepo == [Org |-> "", Repo |-> "", Remote |-> FALSE]
NoCall == [idx |-> 0, sr |-> NoRepo, ok |-> FALSE, err |-> "", failed |-> FALSE, calls |-> <<>>]

\* the defaults of the flags of "jx update webhooks"
DefaultWebhookOptions ==
    [Org |-> "", Repo |-> "", ExactHookMatch |-> TRUE,
     PreviousHookUrl |-> <<>>, DryRun |-> FALSE, WarnOnFail |-> FALSE]

WhInit ==
    /\ whO \in {o \in WebhookOptions : o.PreviousHookUrl \in {<<>>, UrlOld}}
    /\ whPc = "start"
    /\ whN \in 0..MaxRepos
    /\ whIdx = 0
    /\ whCur = NoRepo
    /\ whLast = NoCall
    /\ whResult = "none"

WhIdle ==
    /\ whO = DefaultWebhookOptions
    /\ whPc = "idle"
    /\ whN = 0
    /\ whIdx = 0
    /\ whCur = NoRepo
    /\ whLast = NoCall
    /\ whResult = "none"

\* Run up to the loop: the kube client, the webhook endpoint, the HMAC token,
\* the jx client and the list of SourceRepositories, each of which may fail
WhSetup ==
    /\ whPc = "start"
    /\ \E ok \in BOOLEAN :
        IF ok
        THEN /\ whPc' = "loop"
             /\ UNCHANGED whResult
        ELSE /\ whPc' = "done"
             /\ whResult' = "setup failed"
    /\ UNCHANGED <<whO, whN, whIdx, whCur, whLast, whOthers>>

\* for _, sr := range srList.Items: the next item, or the end of the list
WhRange ==
    /\ whPc = "loop"
    /\ IF whIdx < whN
       THEN /\ \E sr \in SourceRepositories : whCur' = sr
            /\ whLast' = NoCall
            /\ whPc' = "handle"
            /\ UNCHANGED whResult
       ELSE /\ whPc' = "done"
            /\ whResult' = "nil"
            /\ UNCHANGED <<whCur, whLast>>
    /\ UNCHANGED <<whO, whN, whIdx, whOthers>>

\* the body of the loop: UpdateWebhookForSourceRepository, and the return on its error
WhHandle ==
    /\ whPc = "handle"
    /\ \E kind \in GitKinds, failAt \in FailPoints,
          list \in [ok : BOOLEAN, hooks : RunHookLists(MaxRunHooks)] :
        LET r == UpdateWebhookForSourceRepository(whO, whCur, kind, RunWebhookURL, list, failAt)
            i == whIdx + 1
        IN  /\ whLast' = [idx |-> i, sr |-> whCur, ok |-> r.ok, err |-> r.err,
                           failed |-> r.failed, calls |-> r.calls]
            /\ IF r.err # ""
               THEN /\ whPc' = "done"
                    /\ whResult' = r.err
                    /\ UNCHANGED whIdx
               ELSE /\ whPc' = "loop"
                    /\ whIdx' = i
                    /\ UNCHANGED whResult
    /\ UNCHANGED <<whO, whN, whCur, whOthers>>

WhNext == WhSetup \/ WhRange \/ WhHandle

----------------------------------------------------------------------------
(* updateRepoHook and matchesWebhookURL on drawn inputs *)

HkIdle == hkCall = [op |-> "idle"]

HkInit ==
    /\ hkCall = [op |-> "none"]
    /\ whO \in [Org : {""}, Repo : {""}, ExactHookMatch : BOOLEAN,
                PreviousHookUrl : PreviousURLs, DryRun : BOOLEAN, WarnOnFail : {FALSE}]
    /\ whPc = "idle"
    /\ whN = 0
    /\ whIdx = 0
    /\ whCur = NoRepo
    /\ whLast = NoCall
    /\ whResult = "none"

\* a call of updateRepoHook
HkUpdateRepoHook ==
    /\ hkCall.op = "none"
    /\ \E kind \in GitKinds, url \in WebhookURLs, failAt \in {"none", "insecure", "call"},
          list \in [ok : BOOLEAN, hooks : HookLists(MaxHooks)] :
        LET r == UpdateRepoHook(whO, kind, url, list, failAt)
        IN  hkCall' = [op |-> "updateRepoHook", kind |-> kind, url |-> url, list |-> list,
                       failAt |-> failAt, calls |-> r.calls, err |-> r.err]
    /\ UNCHANGED <<whVars, hkOthers>>

\* a call of matchesWebhookURL
HkMatches ==
    /\ hkCall.op = "none"
    /\ \E kind \in GitKinds, url \in WebhookURLs, hookURL \in HookURLs :
        hkCall' = [op |-> "matchesWebhookURL", kind |-> kind, url |-> url,
                   hookURL |-> hookURL,
                   answer |-> MatchesWebhookURL(whO, kind, url, hookURL)]
    /\ UNCHANGED <<whVars, hkOthers>>

HkNext == HkUpdateRepoHook \/ HkMatches

----------------------------------------------------------------------------
(* create devpod *)

\* the flags --persist, --sync, --reuse, --import-url, --auto-expose, --dir;
\* "bad" is an import URL that gits.ParseGitURL rejects
DevPodOptions ==
    [Persist : BOOLEAN, Sync : BOOLEAN, Reuse : BOOLEAN, ImportURL : {"", "git1", "bad"},
     AutoExpose : BOOLEAN, Dir : {"", "d2"}]

\* the defaults of the flags of "jx create devpod"
DefaultDevPodOptions ==
    [Persist |-> FALSE, Sync |-> FALSE, Reuse |-> TRUE, ImportURL |-> "",
     AutoExpose |-> FALSE, Dir |-> ""]

\* a map[string]string; the four git labels of a repository (scheme, host,
\* organisation, name) are one label "git" here
EmptyMap == [k \in {} |-> ""]
NilLabels == [nil |-> TRUE, m |-> EmptyMap]
UserName == "u1"
LocalDirs == {"", "d1", "d2"}
PodLabelSets == {EmptyMap, "git" :> "git1"}
NoPod == [name |-> "", labels |-> EmptyMap, deleting |-> FALSE, localDir |-> ""]
NoFind == [n |-> 0, matchLabels |-> EmptyMap, podsList |-> <<>>, answer |-> NoPod]

\* the pods a label selector selects: they carry the labels of the selector
\* (pods that do not are not listed), other labels or none, a deletion
\* timestamp or none, a local-dir annotation or none
PodsSelectedBy(matchLabels) ==
    {[name |-> "", labels |-> matchLabels @@ extra, deleting |-> d, localDir |-> ld] :
        extra \in PodLabelSets, d \in BOOLEAN, ld \in LocalDirs}

\* the lists Pods.List may return: each pod has a name of its own, which is
\* also its devpod name label
PodLists(matchLabels) ==
    {[i \in 1..Len(l) |->
        [l[i] EXCEPT !.name = "devpod" \o ToString(i),
                     !.labels = l[i].labels @@ ("name" :> "devpod" \o ToString(i))]] :
        l \in SeqsUpTo(PodsSelectedBy(matchLabels), MaxPods)}

\* populateFromGitInfo, for the labels of a parsed git URL
PopulateFromGitInfo(importURL) == [nil |-> FALSE, m |-> "git" :> importURL]

\* mergeLabels: the labels are written into the map of gitLabels itself, which
\* panics when that map is nil and there is a label to write
MergeLabels(gitLabels, labels) ==
    IF gitLabels.nil
    THEN [panic |-> DOMAIN labels # {}, l |-> gitLabels]
    ELSE [panic |-> FALSE, l |-> [nil |-> FALSE, m |-> labels @@ gitLabels.m]]

\* a variant of the loop of findDevPodBySelector that skips no pod that is being deleted
RECURSIVE FirstEligibleAnyState(_, _, _)
FirstEligibleAnyState(podsList, matchDir, i) ==
    IF i > Len(podsList) THEN NoPod
    ELSE IF podsList[i].localDir = matchDir THEN podsList[i]
    ELSE FirstEligibleAnyState(podsList, matchDir, i + 1)

\* the loop of findDevPodBySelector over podsList.Items from position i on:
\* the pod returned, NoPod for nil
RECURSIVE FirstEligible(_, _, _)
FirstEligible(podsList, matchDir, i) ==
    IF i > Len(podsList) THEN NoPod
    ELSE IF ~podsList[i].deleting /\ podsList[i].localDir = matchDir THEN podsList[i]
    ELSE FirstEligible(podsList, matchDir, i + 1)

\* findDevPodBySelector on what Pods.List returned
FindDevPodBySelector(o, podsList, dir) ==
    FirstEligible(podsList, IF o.Sync THEN dir ELSE "", 1)

\* uniquePodName
RECURSIVE UniquePodName(_, _, _)
UniquePodName(names, prefix, count) ==
    LET name == IF count > 1 THEN prefix \o ToString(count) ELSE prefix
    IN  IF name \notin names THEN name ELSE UniquePodName(names, prefix, count + 1)

DpInit ==
    /\ dpO \in DevPodOptions
    /\ dpPc = "start"
    /\ dpDir = ""
    /\ dpImportURL = ""
    /\ dpGitLabels = NilLabels
    /\ dpCreate = TRUE
    /\ dpPod = NoPod
    /\ dpName = ""
    /\ dpLabel = ""
    /\ dpFind = NoFind
    /\ dpCalls = <<>>
    /\ dpResult = "none"

DpIdle ==
    /\ dpO = DefaultDevPodOptions
    /\ dpPc = "idle"
    /\ dpDir = ""
    /\ dpImportURL = ""
    /\ dpGitLabels = NilLabels
    /\ dpCreate = TRUE
    /\ dpPod = NoPod
    /\ dpName = ""
    /\ dpLabel = ""
    /\ dpFind = NoFind
    /\ dpCalls = <<>>
    /\ dpResult = "none"

\* Run returns err (or panics)
DpReturn(err) ==
    /\ dpPc' = "done"
    /\ dpResult' = err

\* a variant of the checks of the flags that lets --persist go with --sync
DpCheckFlagsNoPersist ==
    /\ dpPc = "start"
    /\ IF dpO.ImportURL # "" /\ dpO.Sync
       THEN DpReturn("cannot specify --import-url && --sync")
       ELSE dpPc' = "connect" /\ UNCHANGED dpResult
    /\ UNCHANGED <<dpO, dpDir, dpImportURL, dpGitLabels, dpCreate, dpPod, dpName, dpLabel, dpFind, dpCalls>>
    /\ UNCHANGED dpOthers

\* the checks of the flags that open Run
DpCheckFlags ==
    /\ dpPc = "start"
    /\ IF dpO.Persist /\ dpO.Sync
       THEN DpReturn("cannot specify --persist and --sync")
       ELSE IF dpO.ImportURL # "" /\ dpO.Sync
       THEN DpReturn("cannot specify --import-url && --sync")
       ELSE dpPc' = "connect" /\ UNCHANGED dpResult
    /\ UNCHANGED <<dpO, dpDir, dpImportURL, dpGitLabels, dpCreate, dpPod, dpName, dpLabel, dpFind, dpCalls>>
    /\ UNCHANGED dpOthers

\* the kube client and namespace, the dev namespace, the check of --auto-expose, the user name
DpConnect ==
    /\ dpPc = "connect"
    /\ dpCalls' = Append(dpCalls, "KubeClient")
    /\ \E failAt \in {"none", "client", "namespace", "insecure", "user"} :
        IF failAt = "none" \/ (failAt = "insecure" /\ ~dpO.AutoExpose)
        THEN dpPc' = "dirs" /\ UNCHANGED dpResult
        ELSE DpReturn(failAt)
    /\ UNCHANGED <<dpO, dpDir, dpImportURL, dpGitLabels, dpCreate, dpPod, dpName, dpLabel, dpFind>>
    /\ UNCHANGED dpOthers

\* dir and importURL: --dir or the working directory ("d1"), and the git URL
\* found in dir (gitURL, "" when none is found) when --import-url is not given
DpDirs ==
    /\ dpPc = "dirs"
    /\ \E ok \in BOOLEAN, gitURL \in {"", "git1"} :
        IF ~ok
        THEN DpReturn("getting the working directory") /\ UNCHANGED <<dpDir, dpImportURL>>
        ELSE /\ dpDir' = IF dpO.Dir # "" THEN dpO.Dir ELSE "d1"
             /\ dpImportURL' = IF dpO.ImportURL = "" THEN gitURL ELSE dpO.ImportURL
             /\ dpPc' = "findByGit"
             /\ UNCHANGED dpResult
    /\ UNCHANGED <<dpO, dpGitLabels, dpCreate, dpPod, dpName, dpLabel, dpFind, dpCalls>>
    /\ UNCHANGED dpOthers

\* if importURL != "" && o.Reuse: the search for a DevPod of this git URL
DpFindByGit ==
    /\ dpPc = "findByGit"
    /\ IF dpImportURL # "" /\ dpO.Reuse /\ dpImportURL # "bad"
       THEN \E populateOk \in BOOLEAN, listOk \in BOOLEAN :
            LET populated == PopulateFromGitInfo(dpImportURL)
                merged == MergeLabels(populated, "user" :> UserName)
                matchLabels == merged.l.m
            IN  IF ~populateOk
                THEN /\ DpReturn("populating labels from git info")
                     /\ UNCHANGED <<dpGitLabels, dpCreate, dpPod, dpName, dpFind, dpCalls>>
                ELSE /\ dpGitLabels' = merged.l
                     /\ dpCalls' = Append(dpCalls, "Pods.List")
                     /\ IF ~listOk
                        THEN /\ DpReturn("finding DevPod by selector")
                             /\ UNCHANGED <<dpCreate, dpPod, dpName, dpFind>>
                        ELSE \E podsList \in PodLists(matchLabels) :
                             LET pod == FindDevPodBySelector(dpO, podsList, dpDir)
                             IN  /\ dpFind' = [n |-> 1, matchLabels |-> matchLabels,
                                              podsList |-> podsList, answer |-> pod]
                                 /\ dpPod' = pod
                                 /\ dpName' = IF pod # NoPod THEN pod.name ELSE dpName
                                 /\ dpCreate' = IF pod # NoPod THEN FALSE ELSE dpCreate
                                 /\ dpPc' = "prepare"
                                 /\ UNCHANGED dpResult
       ELSE /\ dpPc' = "prepare"
            /\ UNCHANGED <<dpGitLabels, dpCreate, dpPod, dpName, dpFind, dpCalls, dpResult>>
    /\ UNCHANGED <<dpO, dpDir, dpImportURL, dpLabel>>
    /\ UNCHANGED dpOthers

\* if create: the pod template of the label, the name and the labels of the new pod
DpPrepare ==
    /\ dpPc = "prepare"
    /\ dpFind' = NoFind
    /\ IF ~dpCreate
       THEN /\ dpPc' = "create"
            /\ UNCHANGED <<dpGitLabels, dpPod, dpName, dpLabel, dpResult>>
       ELSE \E failAt \in {"none", "before labels", "after labels"}, label \in {"go", "maven"},
               taken \in BOOLEAN :
            LET prefix == UserName \o "-" \o label
                name == UniquePodName(IF taken THEN {prefix} ELSE {}, prefix, 1)
                podLabels == ("tmpl" :> label) @@ ("name" :> name) @@ ("user" :> UserName)
                merged == MergeLabels(dpGitLabels, podLabels)
            IN  IF failAt = "before labels"
                THEN /\ DpReturn(failAt)
                     /\ UNCHANGED <<dpGitLabels, dpPod, dpName, dpLabel>>
                ELSE IF merged.panic
                THEN /\ DpReturn("panic")
                     /\ dpLabel' = label
                     /\ dpName' = name
                     /\ UNCHANGED <<dpGitLabels, dpPod>>
                ELSE /\ dpLabel' = label
                     /\ dpName' = name
                     /\ dpGitLabels' = merged.l
                     /\ dpPod' = [name |-> name, labels |-> merged.l.m, deleting |-> FALSE,
                                  localDir |-> IF dpO.Sync THEN dpDir ELSE ""]
                     /\ IF failAt = "after labels"
                        THEN DpReturn(failAt)
                        ELSE dpPc' = "findByLabel" /\ UNCHANGED dpResult
    /\ UNCHANGED <<dpO, dpDir, dpImportURL, dpCreate, dpCalls>>
    /\ UNCHANGED dpOthers

\* if o.Reuse, at the end of if create: the search for a DevPod of this label
DpFindByLabel ==
    /\ dpPc = "findByLabel"
    /\ IF dpO.Reuse
       THEN \E listOk \in BOOLEAN :
            LET matchLabels == ("tmpl" :> dpLabel) @@ ("user" :> UserName)
            IN  IF ~listOk
                THEN /\ DpReturn("listing PODs")
                     /\ dpCalls' = Append(dpCalls, "Pods.List")
                     /\ UNCHANGED <<dpGitLabels, dpCreate, dpPod, dpName, dpFind>>
                ELSE \E podsList \in PodLists(matchLabels) :
                     LET foundPod == FindDevPodBySelector(dpO, podsList, dpDir)
                         newLabels == MergeLabels(dpGitLabels, foundPod.labels)
                         update == foundPod.labels # newLabels.l.m
                     IN  /\ dpFind' = [n |-> 2, matchLabels |-> matchLabels,
                                      podsList |-> podsList, answer |-> foundPod]
                         /\ dpPc' = "create"
                         /\ UNCHANGED dpResult
                         /\ IF foundPod # NoPod
                            THEN /\ dpPod' = [foundPod EXCEPT !.labels = newLabels.l.m]
                                 /\ dpName' = foundPod.name
                                 /\ dpCreate' = FALSE
                                 /\ dpGitLabels' = newLabels.l
                                 /\ dpCalls' = dpCalls \o <<"Pods.List">>
                                                \o IF update THEN <<"Pods.Update">> ELSE <<>>
                            ELSE /\ dpCalls' = Append(dpCalls, "Pods.List")
                                 /\ UNCHANGED <<dpGitLabels, dpCreate, dpPod, dpName>>
       ELSE /\ dpPc' = "create"
            /\ UNCHANGED <<dpGitLabels, dpCreate, dpPod, dpName, dpFind, dpCalls, dpResult>>
    /\ UNCHANGED <<dpO, dpDir, dpImportURL, dpLabel>>
    /\ UNCHANGED dpOthers

\* the calls of the second if create, up to their first failure: the pod, the
\* claim of --persist, a service for each of the ports exposed and one for the IDE
CreateCalls(o, ports, failAt) ==
    <<"Pods.Create">>
    \o (IF failAt \in {"pod", "wait"} THEN <<>>
        ELSE <<"Pods.Get">>
    \o (IF failAt = "get" THEN <<>>
        ELSE (IF o.Persist THEN <<"PersistentVolumeClaims.Create">> ELSE <<>>)
    \o (IF failAt = "pvc" /\ o.Persist THEN <<>>
        ELSE [i \in 1..ports |-> "Services.Create"]
    \o (IF failAt = "service" /\ ports > 0 THEN <<>>
        ELSE (IF ~o.Sync THEN <<"Services.Create">> ELSE <<>>)))))

\* whether the second if create returns an error
CreateFails(o, ports, failAt) ==
    \/ failAt \in {"pod", "wait", "get"}
    \/ failAt = "pvc" /\ o.Persist
    \/ failAt = "service" /\ ports > 0
    \/ failAt = "ide" /\ ~o.Sync
    \/ failAt = "expose" /\ o.AutoExpose /\ (ports > 0 \/ ~o.Sync)

\* if create: Pods.Create and what follows it
DpCreatePod ==
    /\ dpPc = "create"
    /\ dpFind' = NoFind
    /\ IF dpCreate
       THEN \E failAt \in {"none", "pod", "wait", "get", "pvc", "service", "ide", "expose"},
               ports \in 0..1 :
            /\ dpCalls' = dpCalls \o CreateCalls(dpO, ports, failAt)
            /\ IF CreateFails(dpO, ports, failAt)
               THEN DpReturn(failAt)
               ELSE dpPc' = "finish" /\ UNCHANGED dpResult
       ELSE /\ dpPc' = "finish"
            /\ UNCHANGED <<dpCalls, dpResult>>
    /\ UNCHANGED <<dpO, dpDir, dpImportURL, dpGitLabels, dpCreate, dpPod, dpName, dpLabel>>
    /\ UNCHANGED dpOthers

\* the rest of Run: the URL of the IDE service written to the pod when
\* --auto-expose exposed one, ksync with --sync, the remote shells into the pod
DpFinish ==
    /\ dpPc = "finish"
    /\ \E failAt \in {"none", "url", "get", "update", "services", "ksync", "rsh"},
          ideServiceURL \in BOOLEAN :
        LET annotate == ~dpO.Sync /\ dpO.AutoExpose /\ failAt # "url" /\ ideServiceURL
        IN  /\ dpCalls' = dpCalls
                \o (IF annotate THEN <<"Pods.Get">> ELSE <<>>)
                \o (IF annotate /\ failAt # "get" THEN <<"Pods.Update">> ELSE <<>>)
            /\ IF \/ failAt \in {"services", "rsh"}
                  \/ failAt = "url" /\ ~dpO.Sync /\ dpO.AutoExpose
                  \/ failAt \in {"get", "update"} /\ annotate
                  \/ failAt = "ksync" /\ dpO.Sync
               THEN DpReturn(failAt)
               ELSE DpReturn("nil")
    /\ UNCHANGED <<dpO, dpDir, dpImportURL, dpGitLabels, dpCreate, dpPod, dpName, dpLabel, dpFind>>
    /\ UNCHANGED dpOthers

DpNext ==
    \/ DpCheckFlags \/ DpConnect \/ DpDirs \/ DpFindByGit \/ DpPrepare \/ DpFindByLabel
    \/ DpCreatePod \/ DpFinish

----------------------------------------------------------------------------
----------------------------------------------------------------------------
(* step verify preinstall: StepVerifyPreInstallOptions.Run *)

\* cloud.GKE, cloud.EKS, cloud.AWS and the webhook types of the config package
GKE == "gke"
EKS == "eks"
AWS == "aws"
WebhookTypeLighthouse == "lighthouse"
WebhookTypeProw == "prow"

\* what Run reads of the requirements file and of the flags
PreInstallInputs ==
    [Provider : {GKE, EKS, "aks"}, Kaniko : BOOLEAN, VeleroNamespace : {"", "velero"},
     Webhook : {WebhookTypeLighthouse, WebhookTypeProw}, Helmfile : BOOLEAN,
     DisableVerifyHelm : BOOLEAN, DisableVerifyPackages : BOOLEAN,
     TestKanikoSecretData : {"", "k"}, TestVeleroSecretData : {"", "v"}]

NoPreInstall ==
    [Provider |-> "", Kaniko |-> FALSE, VeleroNamespace |-> "", Webhook |-> "",
     Helmfile |-> FALSE, DisableVerifyHelm |-> FALSE, DisableVerifyPackages |-> FALSE,
     TestKanikoSecretData |-> "", TestVeleroSecretData |-> ""]

\* what io.ConfigureKaniko and o.configureVelero can answer: an error, or the
\* secret data, which may be empty
SecretData == [err : BOOLEAN, data : {"", "sa"}]

\* the order of the steps of Run
PiRank ==
    [idle |-> 0, start |-> 1, devns |-> 2, checks |-> 3, kaniko |-> 4, velero |-> 5,
     prow |-> 6, finish |-> 7, end |-> 8]

\* lazyCreateKanikoSecret: "Cok" when the secret was created, "Cfail" on an error
LazyCreateKanikoSecret(req, configured, createOk) ==
    LET data == IF req.TestKanikoSecretData # "" THEN req.TestKanikoSecretData
                ELSE configured.data
    IN  IF req.TestKanikoSecretData = "" /\ configured.err THEN "Cfail"
        ELSE IF data = "" THEN "Cfail"
        ELSE IF createOk THEN "Cok" ELSE "Cfail"

\* lazyCreateVeleroSecret: as above, and "Cnone" when there is no data and it
\* returns nil without creating the secret
LazyCreateVeleroSecret(req, configured, createOk) ==
    LET data == IF req.TestVeleroSecretData # "" THEN req.TestVeleroSecretData
                ELSE configured.data
    IN  IF req.TestVeleroSecretData = "" /\ configured.err THEN "Cfail"
        ELSE IF data = "" THEN "Cnone"
        ELSE IF createOk THEN "Cok" ELSE "Cfail"

PiInit ==
    /\ piReq \in PreInstallInputs
    /\ piLazy = FALSE
    /\ piPc = "start"
    /\ piDevNs = <<>>
    /\ piKaniko = <<>>
    /\ piVelero = <<>>
    /\ piResult = "none"

PiIdle ==
    /\ piReq = NoPreInstall
    /\ piLazy = FALSE
    /\ piPc = "idle"
    /\ piDevNs = <<>>
    /\ piKaniko = <<>>
    /\ piVelero = <<>>
    /\ piResult = "none"

\* Run returns err; piPc stays at the step that returned
PiReturn(err) == piResult' = err /\ UNCHANGED piPc
\* Run goes on with the next step
PiGoto(pc) == piPc' = pc /\ UNCHANGED piResult

\* Run up to the verification of the dev namespace: loading, gathering and
\* validating the requirements, o.LazyCreate, the namespace, the kube client, TLS
PiSetup ==
    /\ piPc = "start" /\ piResult = "none"
    /\ \E failAt \in {"none", "load", "configure", "gather", "validate", "lazyCreate",
                      "namespace", "kubeClient", "tls"}, lazy \in BOOLEAN :
        IF failAt # "none"
        THEN /\ PiReturn(failAt)
             /\ piLazy' = IF failAt \in {"namespace", "kubeClient", "tls"} THEN lazy ELSE FALSE
        ELSE /\ PiGoto("devns")
             /\ piLazy' = lazy
    /\ UNCHANGED <<piReq, piDevNs, piKaniko, piVelero, piOthers>>

\* verifyDevNamespace, and with LazyCreate the creation of the namespace and a
\* second verifyDevNamespace; without LazyCreate the error is dropped: err is
\* assigned anew by the next statement
PiDevNamespace ==
    /\ piPc = "devns" /\ piResult = "none"
    /\ \E v1 \in BOOLEAN, created \in BOOLEAN, v2 \in BOOLEAN :
        IF v1
        THEN piDevNs' = <<"Vok">> /\ PiGoto("checks")
        ELSE IF piLazy
             THEN IF ~created
                  THEN piDevNs' = <<"Vfail", "Cfail">> /\ PiReturn("createNamespace")
                  ELSE IF v2
                       THEN piDevNs' = <<"Vfail", "Cok", "Vok">> /\ PiGoto("checks")
                       ELSE /\ piDevNs' = <<"Vfail", "Cok", "Vfail">>
                            /\ PiReturn("verifyDevNamespace")
             ELSE piDevNs' = <<"Vfail">> /\ PiGoto("checks")
    /\ UNCHANGED <<piReq, piLazy, piKaniko, piVelero, piOthers>>

\* the steps of Run between the dev namespace and the secrets that can fail
PiCheckSteps(req) ==
    {"ingress", "namespace", "dependencies", "installConfig", "storage"}
        \cup (IF ~req.DisableVerifyPackages THEN {"packages"} ELSE {})
        \cup (IF ~req.DisableVerifyHelm /\ ~req.Helmfile THEN {"helm"} ELSE {})

\* verifyIngress, the namespace command, the dependencies, the packages,
\* VerifyInstallConfig, verifyStorage and verifyHelm
PiChecks ==
    /\ piPc = "checks" /\ piResult = "none"
    /\ \E failAt \in {"none"} \cup PiCheckSteps(piReq) :
        IF failAt # "none" THEN PiReturn(failAt) ELSE PiGoto("kaniko")
    /\ UNCHANGED <<piReq, piLazy, piDevNs, piKaniko, piVelero, piOthers>>

PiKanikoNoRecheck ==
    /\ piPc = "kaniko" /\ piResult = "none"
    /\ IF piReq.Kaniko /\ piReq.Provider = GKE
       THEN \E v1 \in BOOLEAN, configured \in SecretData, createOk \in BOOLEAN, v2 \in BOOLEAN :
            LET c == LazyCreateKanikoSecret(piReq, configured, createOk)
            IN  IF v1
                THEN piKaniko' = <<"Vok">> /\ PiGoto("velero")
                ELSE IF piLazy
                     THEN IF c = "Cfail"
                          THEN piKaniko' = <<"Vfail", c>> /\ PiReturn("lazyCreateKaniko")
                          ELSE /\ piKaniko' = <<"Vfail", c, IF v2 THEN "Vok" ELSE "Vfail">>
                               /\ PiGoto("velero")
                     ELSE piKaniko' = <<"Vfail">> /\ PiReturn("validateKaniko")
       ELSE PiGoto("velero") /\ UNCHANGED piKaniko
    /\ UNCHANGED <<piReq, piLazy, piDevNs, piVelero, piOthers>>

\* the Kaniko secret: validateKaniko, and with LazyCreate lazyCreateKanikoSecret
\* and a second validateKaniko
PiKaniko ==
    /\ piPc = "kaniko" /\ piResult = "none"
    /\ IF piReq.Kaniko /\ piReq.Provider = GKE
       THEN \E v1 \in BOOLEAN, configured \in SecretData, createOk \in BOOLEAN, v2 \in BOOLEAN :
            LET c == LazyCreateKanikoSecret(piReq, configured, createOk)
            IN  IF v1
                THEN piKaniko' = <<"Vok">> /\ PiGoto("velero")
                ELSE IF piLazy
                     THEN IF c = "Cfail"
                          THEN piKaniko' = <<"Vfail", c>> /\ PiReturn("lazyCreateKaniko")
                          ELSE /\ piKaniko' = <<"Vfail", c, IF v2 THEN "Vok" ELSE "Vfail">>
                               /\ IF v2 THEN PiGoto("velero") ELSE PiReturn("validateKaniko")
                     ELSE piKaniko' = <<"Vfail">> /\ PiReturn("validateKaniko")
       ELSE PiGoto("velero") /\ UNCHANGED piKaniko
    /\ UNCHANGED <<piReq, piLazy, piDevNs, piVelero, piOthers>>

\* the Velero secret: validateVelero, and with LazyCreate lazyCreateVeleroSecret
\* and a second validateVelero
PiVelero ==
    /\ piPc = "velero" /\ piResult = "none"
    /\ IF piReq.VeleroNamespace # "" /\ piReq.Provider = GKE
       THEN \E v1 \in BOOLEAN, configured \in SecretData, createOk \in BOOLEAN, v2 \in BOOLEAN :
            LET c == LazyCreateVeleroSecret(piReq, configured, createOk)
            IN  IF v1
                THEN piVelero' = <<"Vok">> /\ PiGoto("prow")
                ELSE IF piLazy
                     THEN IF c = "Cfail"
                          THEN piVelero' = <<"Vfail", c>> /\ PiReturn("lazyCreateVelero")
                          ELSE /\ piVelero' = <<"Vfail", c, IF v2 THEN "Vok" ELSE "Vfail">>
                               /\ IF v2 THEN PiGoto("prow") ELSE PiReturn("validateVelero")
                     ELSE piVelero' = <<"Vfail">> /\ PiReturn("validateVelero")
       ELSE PiGoto("prow") /\ UNCHANGED piVelero
    /\ UNCHANGED <<piReq, piLazy, piDevNs, piKaniko, piOthers>>

\* verifyProwConfigMaps, with lighthouse only
PiProw ==
    /\ piPc = "prow" /\ piResult = "none"
    /\ IF piReq.Webhook = WebhookTypeLighthouse
       THEN \E ok \in BOOLEAN : IF ok THEN PiGoto("finish") ELSE PiReturn("prowConfigMaps")
       ELSE PiGoto("finish")
    /\ UNCHANGED <<piReq, piLazy, piDevNs, piKaniko, piVelero, piOthers>>

\* the IAM roles for service accounts on EKS, then "Cluster looks good"
PiFinish ==
    /\ piPc = "finish" /\ piResult = "none"
    /\ \E inCluster \in BOOLEAN, override \in BOOLEAN,
          failAt \in {"none", "enableIRSA", "createIRSA"} :
        IF piReq.Provider = EKS /\ piLazy /\ (~inCluster \/ override) /\ failAt # "none"
        THEN PiReturn(failAt)
        ELSE piPc' = "end" /\ piResult' = "nil"
    /\ UNCHANGED <<piReq, piLazy, piDevNs, piKaniko, piVelero, piOthers>>

PiNext ==
    \/ PiSetup
    \/ PiDevNamespace
    \/ PiChecks
    \/ PiKaniko
    \/ PiVelero
    \/ PiProw
    \/ PiFinish

----------------------------------------------------------------------------
(* verifyProwConfigMaps and verifyConfigMapExists, run against a Kubernetes *)
(* API that other processes create and update ConfigMaps through.  Of the   *)
(* data of a ConfigMap only the key that is verified is kept; rv is its     *)
(* resourceVersion, which Update compares.                                  *)

\* the name, key and defaultValue arguments of the two verifyConfigMapExists calls
CmNames == <<"config", "plugins">>
CmKeys == <<"config.yaml", "plugins.yaml">>
CmDefaults == <<"pod_namespace: jx", "cat: {}">>
\* a value another process may have put under the key
CmOtherValue == "other"

NoCM == [exists |-> FALSE, has |-> FALSE, value |-> "", rv |-> 0]
NewCM(has, value) == [exists |-> TRUE, has |-> has, value |-> IF has THEN value ELSE "", rv |-> 1]
\* the ConfigMap after an Update that puts value under the key
WithKey(cm, value) == [exists |-> TRUE, has |-> TRUE, value |-> value, rv |-> cm.rv + 1]
Nobody == [by |-> "nobody", value |-> ""]

\* the first writer of the key is remembered
FirstWriter(first, cm, by) ==
    IF first.by = "nobody" /\ cm.has THEN [by |-> by, value |-> cm.value] ELSE first

CmInit ==
    /\ cmStore \in [{1, 2} -> {NoCM, NewCM(FALSE, ""), NewCM(TRUE, CmOtherValue)}]
    /\ cmFirst = [i \in {1, 2} |-> FirstWriter(Nobody, cmStore[i], "other")]
    /\ cmIdx = 1
    /\ cmPc = "get"
    /\ cmLocal = NoCM
    /\ cmOps = <<<<>>, <<>>>>
    /\ cmResult = "none"

CmIdle ==
    /\ cmStore = [i \in {1, 2} |-> NoCM]
    /\ cmFirst = [i \in {1, 2} |-> Nobody]
    /\ cmIdx = 0
    /\ cmPc = "idle"
    /\ cmLocal = NoCM
    /\ cmOps = <<<<>>, <<>>>>
    /\ cmResult = "none"

\* the API call op of the running verifyConfigMapExists ended as recorded
CmDid(op) == cmOps' = [cmOps EXCEPT ![cmIdx] = Append(@, op)]

\* configMapInterface.Get(name): fails when there is no such ConfigMap, and may
\* fail for any other reason
CmGet ==
    /\ cmPc = "get"
    /\ \E apiOk \in BOOLEAN :
        IF apiOk /\ cmStore[cmIdx].exists
        THEN cmLocal' = cmStore[cmIdx] /\ cmPc' = "check" /\ CmDid("Gok")
        ELSE cmPc' = "create" /\ CmDid("Gfail") /\ UNCHANGED cmLocal
    /\ UNCHANGED <<cmStore, cmFirst, cmIdx, cmResult, cmOthers>>

\* configMapInterface.Create of a ConfigMap holding the default value: fails
\* when the ConfigMap exists, and may fail for any other reason
CmCreate ==
    /\ cmPc = "create"
    /\ \E apiOk \in BOOLEAN :
        IF apiOk /\ ~cmStore[cmIdx].exists
        THEN LET cm == NewCM(TRUE, CmDefaults[cmIdx])
             IN  /\ cmStore' = [cmStore EXCEPT ![cmIdx] = cm]
                 /\ cmFirst' = [cmFirst EXCEPT ![cmIdx] = FirstWriter(@, cm, "verifier")]
                 /\ cmLocal' = cm
                 /\ cmPc' = "check"
                 /\ CmDid("Cok")
        ELSE cmPc' = "get2" /\ CmDid("Cfail") /\ UNCHANGED <<cmStore, cmFirst, cmLocal>>
    /\ UNCHANGED <<cmIdx, cmResult, cmOthers>>

\* the second Get, after a failed Create
CmGet2 ==
    /\ cmPc = "get2"
    /\ \E apiOk \in BOOLEAN :
        IF apiOk /\ cmStore[cmIdx].exists
        THEN /\ cmLocal' = cmStore[cmIdx] /\ cmPc' = "check" /\ CmDid("G2ok")
             /\ UNCHANGED cmResult
        ELSE /\ cmPc' = "returned" /\ cmResult' = "failed to create" /\ CmDid("G2fail")
             /\ UNCHANGED cmLocal
    /\ UNCHANGED <<cmStore, cmFirst, cmIdx, cmOthers>>

\* verifyConfigMapExists returns nil: verifyProwConfigMaps goes on with the
\* second ConfigMap, or returns nil
CmVerified ==
    IF cmIdx = 1
    THEN cmIdx' = 2 /\ cmPc' = "get" /\ UNCHANGED cmResult
    ELSE cmPc' = "returned" /\ cmResult' = "nil" /\ UNCHANGED cmIdx

CmEnsureKeyOverwrite ==
    /\ cmPc = "check"
    /\ \E apiOk \in BOOLEAN :
        IF apiOk /\ cmStore[cmIdx].exists /\ cmStore[cmIdx].rv = cmLocal.rv
        THEN LET cm == WithKey(cmLocal, CmDefaults[cmIdx])
             IN  /\ cmStore' = [cmStore EXCEPT ![cmIdx] = cm]
                 /\ cmFirst' = [cmFirst EXCEPT ![cmIdx] = FirstWriter(@, cm, "verifier")]
                 /\ cmLocal' = cm
                 /\ CmDid("Uok")
                 /\ CmVerified
        ELSE /\ cmPc' = "returned" /\ cmResult' = "failed to update" /\ CmDid("Ufail")
             /\ UNCHANGED <<cmStore, cmFirst, cmLocal, cmIdx>>
    /\ UNCHANGED cmOthers

\* the entry of cm.Data: when cm has the key nothing is written; otherwise the
\* default value is put into cm and configMapInterface.Update(cm) is called, which
\* fails when the ConfigMap was written since cm was read, and may fail for any
\* other reason
CmEnsureKey ==
    /\ cmPc = "check"
    /\ IF cmLocal.has
       THEN CmVerified /\ UNCHANGED <<cmStore, cmFirst, cmLocal, cmOps>>
       ELSE \E apiOk \in BOOLEAN :
            IF apiOk /\ cmStore[cmIdx].exists /\ cmStore[cmIdx].rv = cmLocal.rv
            THEN LET cm == WithKey(cmLocal, CmDefaults[cmIdx])
                 IN  /\ cmStore' = [cmStore EXCEPT ![cmIdx] = cm]
                     /\ cmFirst' = [cmFirst EXCEPT ![cmIdx] = FirstWriter(@, cm, "verifier")]
                     /\ cmLocal' = cm
                     /\ CmDid("Uok")
                     /\ CmVerified
            ELSE /\ cmPc' = "returned" /\ cmResult' = "failed to update" /\ CmDid("Ufail")
                 /\ UNCHANGED <<cmStore, cmFirst, cmLocal, cmIdx>>
    /\ UNCHANGED cmOthers

\* "maybe someone else just created it": another process creates one of the
\* ConfigMaps, with or without the key
CmOtherCreate ==
    /\ cmPc \notin {"idle", "returned"}
    /\ \E i \in {1, 2}, has \in BOOLEAN, value \in {CmOtherValue, CmDefaults[1], CmDefaults[2]} :
        /\ ~cmStore[i].exists
        /\ LET cm == NewCM(has, value)
           IN  /\ cmStore' = [cmStore EXCEPT ![i] = cm]
               /\ cmFirst' = [cmFirst EXCEPT ![i] = FirstWriter(@, cm, "other")]
    /\ UNCHANGED <<cmIdx, cmPc, cmLocal, cmOps, cmResult, cmOthers>>

\* another process puts the key into one of the ConfigMaps
CmOtherAddKey ==
    /\ cmPc \notin {"idle", "returned"}
    /\ \E i \in {1, 2}, value \in {CmOtherValue, CmDefaults[1], CmDefaults[2]} :
        /\ cmStore[i].exists /\ ~cmStore[i].has
        /\ LET cm == WithKey(cmStore[i], value)
           IN  /\ cmStore' = [cmStore EXCEPT ![i] = cm]
               /\ cmFirst' = [cmFirst EXCEPT ![i] = FirstWriter(@, cm, "other")]
    /\ UNCHANGED <<cmIdx, cmPc, cmLocal, cmOps, cmResult, cmOthers>>

CmNext ==
    \/ CmGet
    \/ CmCreate
    \/ CmGet2
    \/ CmEnsureKey
    \/ CmOtherCreate
    \/ CmOtherAddKey

----------------------------------------------------------------------------
(* gatherRequirements *)

\* the cluster requirements of the jx-requirements file
ClusterRequirements ==
    [Provider : {"", GKE, "GKE", EKS, AWS, "aks"}, Region : {"", "r"}, ProjectID : {"", "p"},
     Zone : {"", "z"}, EnvironmentGitOwner : {"", "o"}, ClusterName : {"", "C1"}]
NoRequirements ==
    [Provider |-> "", Region |-> "", ProjectID |-> "", Zone |-> "",
     EnvironmentGitOwner |-> "", ClusterName |-> ""]
GatherInputs ==
    [BatchMode : BOOLEAN, WorkloadIdentity : BOOLEAN, InCluster : BOOLEAN,
     req : ClusterRequirements]
NoGather ==
    [BatchMode |-> FALSE, WorkloadIdentity |-> FALSE, InCluster |-> FALSE,
     req |-> NoRequirements]

\* strings.TrimSpace(strings.ToLower(s)) on the strings of the model
ToLower(s) ==
    CASE s = "GKE" -> "gke"
      [] s = "C1" -> "c1"
      [] OTHER -> s

\* what the current kube context or the user answers for a value: nothing, or this
Answers == {"", "cur"}

\* the checks of batch mode: the name of the first missing value, "" when none
BatchMissingNoZone(req) ==
    IF req.Provider = "" THEN "provider"
    ELSE IF req.Provider \in {EKS, AWS} /\ req.Region = "" THEN "region"
    ELSE IF req.Provider = GKE /\ req.ProjectID = "" THEN "project"
    ELSE IF req.EnvironmentGitOwner = "" THEN "environmentGitOwner"
    ELSE IF req.ClusterName = "" THEN "clusterName"
    ELSE ""

BatchMissing(req) ==
    IF req.Provider = "" THEN "provider"
    ELSE IF req.Provider \in {EKS, AWS} /\ req.Region = "" THEN "region"
    ELSE IF req.Provider = GKE /\ req.ProjectID = "" THEN "project"
    ELSE IF req.Provider = GKE /\ req.Zone = "" THEN "zone"
    ELSE IF req.EnvironmentGitOwner = "" THEN "environmentGitOwner"
    ELSE IF req.ClusterName = "" THEN "clusterName"
    ELSE ""

GrInit ==
    /\ grIn \in GatherInputs
    /\ grPc = "batch"
    /\ grReq = grIn.req
    /\ grAuto = FALSE
    /\ grConnected = FALSE
    /\ grSaved = FALSE
    /\ grResult = "none"

GrIdle ==
    /\ grIn = NoGather
    /\ grPc = "idle"
    /\ grReq = NoRequirements
    /\ grAuto = FALSE
    /\ grConnected = FALSE
    /\ grSaved = FALSE
    /\ grResult = "none"

GrReturn(err) == grPc' = "returned" /\ grResult' = err
GrGoto(pc) == grPc' = pc /\ UNCHANGED grResult

\* the checks made first in batch mode
GrBatchCheck ==
    /\ grPc = "batch"
    /\ IF grIn.BatchMode /\ BatchMissing(grReq) # ""
       THEN GrReturn("please specify " \o BatchMissing(grReq))
       ELSE GrGoto("provider")
    /\ UNCHANGED <<grIn, grReq, grAuto, grConnected, grSaved, grOthers>>

\* the provider is asked for when missing; for a provider other than GKE and
\* EKS showProvideFeedbackMessage asks whether to go on, unless in batch mode
GrProvider ==
    /\ grPc = "provider"
    /\ \E picked \in {"err", GKE, EKS, "aks"}, answer \in {"err", "yes", "no"} :
        LET provider == IF grReq.Provider = "" THEN picked ELSE grReq.Provider
            feedback == IF grIn.BatchMode THEN "yes" ELSE answer
        IN  IF grReq.Provider = "" /\ picked = "err"
            THEN GrReturn("selecting Kubernetes provider") /\ UNCHANGED grReq
            ELSE /\ grReq' = [grReq EXCEPT !.Provider = provider]
                 /\ IF provider \notin {GKE, EKS} /\ feedback = "err"
                    THEN GrReturn("feedback")
                    ELSE IF provider \notin {GKE, EKS} /\ feedback = "no"
                         THEN GrReturn("finishing execution")
                         ELSE GrGoto("cluster")
    /\ UNCHANGED <<grIn, grAuto, grConnected, grSaved, grOthers>>

\* a missing value v: the current one when the defaults were accepted and there
\* is one, otherwise what was asked for
Filled(v, auto, current, asked) ==
    IF v # "" THEN v ELSE IF auto /\ current # "" THEN current ELSE asked

\* on GKE: the project, zone and cluster name that are missing are taken from
\* the current kube context or asked for, then the cluster is connected to
GrClusterGKE ==
    \E loadOk \in BOOLEAN, curP \in Answers, curZ \in Answers, curC \in Answers,
       confirm \in {"err", "yes", "no"}, askedOk \in BOOLEAN, asked \in Answers,
       connectOk \in BOOLEAN :
        LET missing == grReq.ProjectID = "" \/ grReq.Zone = "" \/ grReq.ClusterName = ""
            known == curC # "" /\ curP # "" /\ curZ # ""
            auto == missing /\ known /\ confirm = "yes"
            cp == IF missing THEN curP ELSE ""
            cz == IF missing THEN curZ ELSE ""
            cc == IF missing THEN curC ELSE ""
            asks == \/ grReq.ProjectID = "" /\ ~(auto /\ cp # "")
                    \/ grReq.Zone = "" /\ ~(auto /\ cz # "")
                    \/ grReq.ClusterName = "" /\ ~(auto /\ cc # "")
            name == Filled(grReq.ClusterName, auto, cc, asked)
        IN  IF missing /\ ~loadOk
            THEN GrReturn("loading kubeconfig") /\ UNCHANGED <<grReq, grAuto, grConnected>>
            ELSE IF missing /\ known /\ confirm = "err"
            THEN GrReturn("confirm") /\ UNCHANGED <<grReq, grAuto, grConnected>>
            ELSE IF asks /\ ~askedOk
            THEN GrReturn("getting a value") /\ UNCHANGED <<grReq, grAuto, grConnected>>
            ELSE IF name = ""
            THEN GrReturn("no cluster name provided") /\ UNCHANGED <<grReq, grAuto, grConnected>>
            ELSE /\ grReq' = [grReq EXCEPT !.ProjectID = Filled(@, auto, cp, "p"),
                                           !.Zone = Filled(@, auto, cz, "z"),
                                           !.ClusterName = name]
                 /\ grAuto' = auto
                 /\ IF ~auto /\ ~grIn.WorkloadIdentity /\ ~grIn.InCluster
                    THEN /\ grConnected' = TRUE
                         /\ IF connectOk THEN GrGoto("finish") ELSE GrReturn("connecting")
                    ELSE GrGoto("finish") /\ UNCHANGED grConnected

\* on EKS and AWS: the region and cluster name that are missing are taken from
\* the currently connected cluster, and the cluster name is asked for otherwise
GrClusterEKS ==
    \E sessionOk \in BOOLEAN, curR \in Answers, curC \in Answers,
       confirm \in {"err", "yes", "no"}, askedOk \in BOOLEAN, asked \in Answers :
        LET missing == grReq.Region = "" \/ grReq.ClusterName = ""
            known == curC # "" /\ curR # ""
            auto == missing /\ known /\ confirm = "yes"
            cr == IF missing THEN curR ELSE ""
            cc == IF missing THEN curC ELSE ""
        IN  IF missing /\ ~sessionOk
            THEN GrReturn("obtaining the current cluster") /\ UNCHANGED <<grReq, grAuto>>
            ELSE IF missing /\ known /\ confirm = "err"
            THEN GrReturn("confirm") /\ UNCHANGED <<grReq, grAuto>>
            ELSE IF grReq.ClusterName = "" /\ ~(auto /\ cc # "") /\ ~askedOk
            THEN GrReturn("getting cluster name") /\ UNCHANGED <<grReq, grAuto>>
            ELSE /\ grReq' = [grReq EXCEPT
                                !.Region = IF @ = "" /\ auto /\ cr # "" THEN cr ELSE @,
                                !.ClusterName = Filled(@, auto, cc, asked)]
                 /\ grAuto' = auto
                 /\ GrGoto("finish")

\* the values of the cluster, by provider
GrCluster ==
    /\ grPc = "cluster"
    /\ IF grReq.Provider = GKE
       THEN GrClusterGKE
       ELSE IF grReq.Provider \in {EKS, AWS}
            THEN GrClusterEKS /\ UNCHANGED grConnected
            ELSE GrGoto("finish") /\ UNCHANGED <<grReq, grAuto, grConnected>>
    /\ UNCHANGED <<grIn, grSaved, grOthers>>

\* the cluster name is asked for if still missing, the values are normalised,
\* the git requirements gathered, the version stream resolved, the requirements
\* file saved and the OWNERS file written
GrFinish ==
    /\ grPc = "finish"
    /\ \E askedOk \in BOOLEAN, asked \in Answers, ownerOk \in BOOLEAN,
          failAt \in {"none", "git", "versionStream", "save", "owners"} :
        LET asks == grReq.ClusterName = "" /\ ~grIn.BatchMode
            name == IF asks THEN asked ELSE grReq.ClusterName
            owner == IF grReq.EnvironmentGitOwner = "" THEN "o" ELSE grReq.EnvironmentGitOwner
            normal == [grReq EXCEPT !.Provider = ToLower(@), !.Zone = ToLower(@),
                                    !.Region = ToLower(@), !.ClusterName = ToLower(name)]
        IN  IF asks /\ ~askedOk
            THEN GrReturn("getting cluster name") /\ UNCHANGED <<grReq, grSaved>>
            ELSE IF asks /\ name = ""
            THEN GrReturn("no cluster name provided") /\ UNCHANGED <<grReq, grSaved>>
            ELSE IF \/ grReq.EnvironmentGitOwner = "" /\ ~ownerOk
                    \/ failAt = "git" /\ ~grIn.BatchMode
            THEN GrReturn("error gathering git requirements")
                 /\ grReq' = normal /\ UNCHANGED grSaved
            ELSE /\ grReq' = [normal EXCEPT !.EnvironmentGitOwner = owner]
                 /\ IF failAt = "versionStream"
                    THEN GrReturn("resolving version stream ref") /\ UNCHANGED grSaved
                    ELSE /\ grSaved' = TRUE
                         /\ IF failAt = "none" THEN GrReturn("nil")
                            ELSE IF failAt = "save"
                                 THEN GrReturn("error saving requirements file")
                                 ELSE GrReturn("writing approvers to OWNERS file")
    /\ UNCHANGED <<grIn, grAuto, grConnected, grOthers>>

GrNext ==
    \/ GrBatchCheck
    \/ GrProvider
    \/ GrCluster
    \/ GrFinish

----------------------------------------------------------------------------
(* ValidateRequirements *)

\* the longest list of environments in the requirements
MaxEnvs == 2

\* config.RepositoryTypeBucketRepo and the chart repository it defaults to
RepositoryTypeBucketRepo == "bucketrepo"
BucketRepoCharts == "http://bucketrepo/bucketrepo/charts/"

\* "environment-" and "-", as characters
EnvironmentPrefix == <<"e", "n", "v", "i", "r", "o", "n", "m", "e", "n", "t", "-">>
Dash == <<"-">>

\* the characters of the names of the model: lower case letters, digits, and
\* the lower case of the upper case letters
LowerLetters == {"c", "d", "e", "i", "m", "n", "o", "r", "t", "v"}
Digits == {"1"}
LowerRune(ch) == IF ch = "C" THEN "c" ELSE ch

\* naming.ToValidName: what comes before the first letter is dropped, upper
\* case becomes lower case, any other character that is no lower case letter,
\* digit or dash becomes a dash, a dash after a dash is dropped
RECURSIVE ToValidChars(_, _, _)
ToValidChars(name, out, lastCharDash) ==
    IF name = <<>> THEN out
    ELSE LET lower == LowerRune(Head(name))
             ch == IF lower \in LowerLetters \cup Digits \cup {"-"} THEN lower ELSE "-"
         IN  IF out = <<>>
             THEN ToValidChars(Tail(name), IF lower \in LowerLetters THEN <<lower>> ELSE out,
                               FALSE)
             ELSE ToValidChars(Tail(name),
                               IF ch # "-" \/ ~lastCharDash THEN Append(out, ch) ELSE out,
                               ch = "-")

\* and the dashes at the end are dropped
RECURSIVE TrimDashes(_)
TrimDashes(s) ==
    IF s # <<>> /\ s[Len(s)] = "-" THEN TrimDashes(SubSeq(s, 1, Len(s) - 1)) ELSE s

ToValidName(name) == TrimDashes(ToValidChars(name, <<>>, FALSE))

\* gits.IsGitHubServerURL
IsGitHubServerURL(u) == u \in {"", "https://github.com", "https://github.com/"}

\* the environments of the requirements: a key and a repository name
EnvKeys == {<<>>, <<"d">>}
EnvRepositories == {<<>>, <<"r">>}
Environments == [Key : EnvKeys, Repository : EnvRepositories]
ClusterNames == {<<>>, <<"c", "1">>, <<"C", "_">>}

ValidateInputs ==
    [Webhook : {WebhookTypeProw, WebhookTypeLighthouse},
     GitKind : {"", "github", "gitlab"},
     GitServer : {"", "https://github.com/", "https://gitlab.com"},
     Repository : {RepositoryTypeBucketRepo, "nexus"},
     ChartRepository : {"", "charts"},
     ClusterName : ClusterNames,
     Environments : SeqsUpTo(Environments, MaxEnvs)]

NoValidate ==
    [Webhook |-> "", GitKind |-> "", GitServer |-> "", Repository |-> "",
     ChartRepository |-> "", ClusterName |-> <<>>, Environments |-> <<>>]

\* the repository name ValidateRequirements gives the environment with this key
EnvironmentRepository(clusterName, key) ==
    LET prefix == IF clusterName # <<>> THEN clusterName \o Dash ELSE clusterName
    IN  ToValidName(EnvironmentPrefix \o prefix \o key)

FillRepositoriesAll(envs, clusterName) ==
    [i \in 1..Len(envs) |->
        [envs[i] EXCEPT !.Repository = EnvironmentRepository(clusterName, envs[i].Key)]]

\* the loop over requirements.Environments
FillRepositories(envs, clusterName) ==
    [i \in 1..Len(envs) |->
        IF envs[i].Repository = <<>>
        THEN [envs[i] EXCEPT !.Repository = EnvironmentRepository(clusterName, envs[i].Key)]
        ELSE envs[i]]

VrInit ==
    /\ vrIn \in ValidateInputs
    /\ vrReq = vrIn
    /\ vrPc = "prow"
    /\ vrSaves = <<>>
    /\ vrResult = "none"

VrIdle ==
    /\ vrIn = NoValidate
    /\ vrReq = NoValidate
    /\ vrPc = "idle"
    /\ vrSaves = <<>>
    /\ vrResult = "none"

VrReturn(err) == vrPc' = "returned" /\ vrResult' = err
VrGoto(pc) == vrPc' = pc /\ UNCHANGED vrResult

VrProwAnyKind ==
    /\ vrPc = "prow"
    /\ IF /\ vrReq.Webhook = WebhookTypeProw
          /\ vrReq.GitServer # "" /\ ~IsGitHubServerURL(vrReq.GitServer)
       THEN VrReturn("invalid requirements")
       ELSE VrGoto("bucketrepo")
    /\ UNCHANGED <<vrIn, vrReq, vrSaves, vrOthers>>

\* prow is a webhook for GitHub only
VrProw ==
    /\ vrPc = "prow"
    /\ IF /\ vrReq.Webhook = WebhookTypeProw
          /\ \/ vrReq.GitKind # "" /\ vrReq.GitKind # "github"
             \/ vrReq.GitServer # "" /\ ~IsGitHubServerURL(vrReq.GitServer)
       THEN VrReturn("invalid requirements")
       ELSE VrGoto("bucketrepo")
    /\ UNCHANGED <<vrIn, vrReq, vrSaves, vrOthers>>

\* the chart repository of a bucket repository, saved when defaulted
VrBucketRepo ==
    /\ vrPc = "bucketrepo"
    /\ IF vrReq.Repository = RepositoryTypeBucketRepo /\ vrReq.ChartRepository = ""
       THEN /\ vrReq' = [vrReq EXCEPT !.ChartRepository = BucketRepoCharts]
            /\ vrSaves' = Append(vrSaves, "chartRepository")
            /\ \E saveOk \in BOOLEAN :
                IF saveOk THEN VrGoto("environments") ELSE VrReturn("failed to save")
       ELSE VrGoto("environments") /\ UNCHANGED <<vrReq, vrSaves>>
    /\ UNCHANGED <<vrIn, vrOthers>>

\* a repository name for every environment, saved when one was missing
VrEnvironments ==
    /\ vrPc = "environments"
    /\ LET modified == \E i \in 1..Len(vrReq.Environments) :
                            vrReq.Environments[i].Repository = <<>>
       IN  /\ vrReq' = [vrReq EXCEPT
                          !.Environments = FillRepositories(@, vrReq.ClusterName)]
           /\ IF modified
              THEN /\ vrSaves' = Append(vrSaves, "environments")
                   /\ \E saveOk \in BOOLEAN :
                        IF saveOk THEN VrReturn("nil") ELSE VrReturn("failed to save")
              ELSE VrReturn("nil") /\ UNCHANGED vrSaves
    /\ UNCHANGED <<vrIn, vrOthers>>

VrNext ==
    \/ VrProw
    \/ VrBucketRepo
    \/ VrEnvironments

----------------------------------------------------------------------------
(* step verify git: StepVerifyGitOptions.Run *)

\* the longest list of git servers, and of users of a server
MaxServers == 2
MaxUsers == 2

\* strings.HasSuffix(s, suffix)
HasSuffix(s, suffix) ==
    /\ Len(s) >= Len(suffix)
    /\ SubSeq(s, Len(s) - Len(suffix) + 1, Len(s)) = suffix

BotSuffix == <<"[", "b", "o", "t", "]">>
\* what provider.CurrentUsername() may answer: a name that ends with "[bot]" and
\* one that has it elsewhere
CurrentUsernames == {<<"u">> \o BotSuffix, BotSuffix \o <<"u">>}
ServerURLs == {"https://github.com", "https://git.corp"}
Usernames == {"u1", "u2"}

GitConfigs ==
    [gha : BOOLEAN, GitHubAppOwner : {"", "owner"},
     PipeLineServer : ServerURLs, PipeLineUsername : Usernames]
NoGitConfig ==
    [gha |-> FALSE, GitHubAppOwner |-> "", PipeLineServer |-> "", PipeLineUsername |-> ""]
NoServer == [URL |-> "", users |-> 0]

GvInit ==
    /\ gvCfg \in GitConfigs
    /\ gvPc = "start"
    /\ gvN = 0
    /\ gvI = 0
    /\ gvServer = NoServer
    /\ gvJ = 0
    /\ gvValid = FALSE
    /\ gvSeen = {}
    /\ gvResult = "none"

GvIdle ==
    /\ gvCfg = NoGitConfig
    /\ gvPc = "idle"
    /\ gvN = 0
    /\ gvI = 0
    /\ gvServer = NoServer
    /\ gvJ = 0
    /\ gvValid = FALSE
    /\ gvSeen = {}
    /\ gvResult = "none"

GvReturn(err) == gvPc' = "returned" /\ gvResult' = err

\* Run up to the loop: GitHub App mode, the auth config service, its config
\* and the servers of the config
GvSetup ==
    /\ gvPc = "start"
    /\ \E failAt \in {"none", "githubAppMode", "authConfigService", "config"},
          n \in 0..MaxServers :
        IF failAt = "githubAppMode"
        THEN GvReturn("while checking if github app mode is enabled") /\ UNCHANGED <<gvN, gvI>>
        ELSE IF gvCfg.gha /\ gvCfg.GitHubAppOwner = ""
        THEN GvReturn("nil") /\ UNCHANGED <<gvN, gvI>>
        ELSE IF failAt = "authConfigService"
        THEN GvReturn("when creating auth config service") /\ UNCHANGED <<gvN, gvI>>
        ELSE IF failAt = "config"
        THEN GvReturn("git auth config is empty") /\ UNCHANGED <<gvN, gvI>>
        ELSE IF n = 0
        THEN GvReturn("no git servers found") /\ UNCHANGED <<gvN, gvI>>
        ELSE gvN' = n /\ gvI' = 1 /\ gvPc' = "server" /\ UNCHANGED gvResult
    /\ UNCHANGED <<gvCfg, gvServer, gvJ, gvValid, gvSeen, gvOthers>>

\* the loop over the servers: the next server and its users, or the end
GvServer ==
    /\ gvPc = "server"
    /\ IF gvI > gvN
       THEN gvPc' = "verdict" /\ UNCHANGED <<gvServer, gvJ, gvI>>
       ELSE \E url \in ServerURLs, users \in 0..MaxUsers :
            /\ gvServer' = [URL |-> url, users |-> users]
            /\ IF users = 0
               THEN gvI' = gvI + 1 /\ UNCHANGED <<gvPc, gvJ>>
               ELSE gvJ' = 1 /\ gvPc' = "user" /\ UNCHANGED gvI
    /\ UNCHANGED <<gvCfg, gvN, gvValid, gvSeen, gvResult, gvOthers>>

\* the loop over server.Users goes on with the next user or the next server
GvContinue ==
    /\ UNCHANGED gvResult
    /\ IF gvJ < gvServer.users
       THEN gvJ' = gvJ + 1 /\ UNCHANGED <<gvPc, gvI>>
       ELSE gvPc' = "server" /\ gvI' = gvI + 1 /\ UNCHANGED gvJ

GvUserAnyListed ==
    /\ gvPc = "user"
    /\ \E username \in Usernames, created \in BOOLEAN, current \in CurrentUsernames,
          listed \in BOOLEAN :
        LET bot == HasSuffix(current, BotSuffix)
        IN  /\ gvSeen' = gvSeen \cup
                    {[server |-> gvServer.URL, user |-> username, created |-> created,
                      current |-> IF created THEN current ELSE <<>>,
                      listed |-> created /\ ~bot /\ listed]}
            /\ IF ~created
               THEN GvReturn("creating git provider") /\ UNCHANGED <<gvValid, gvI, gvJ>>
               ELSE IF bot
               THEN gvValid' = TRUE /\ GvContinue
               ELSE IF ~listed
               THEN GvReturn("listing the organisations") /\ UNCHANGED <<gvValid, gvI, gvJ>>
               ELSE gvValid' = TRUE /\ GvContinue
    /\ UNCHANGED <<gvCfg, gvN, gvServer, gvOthers>>

\* one user of one server: the provider, its current user name, the
\* organisations, and whether this is the pipeline user
GvUser ==
    /\ gvPc = "user"
    /\ \E username \in Usernames, created \in BOOLEAN, current \in CurrentUsernames,
          listed \in BOOLEAN :
        LET bot == HasSuffix(current, BotSuffix)
        IN  /\ gvSeen' = gvSeen \cup
                    {[server |-> gvServer.URL, user |-> username, created |-> created,
                      current |-> IF created THEN current ELSE <<>>,
                      listed |-> created /\ ~bot /\ listed]}
            /\ IF ~created
               THEN GvReturn("creating git provider") /\ UNCHANGED <<gvValid, gvI, gvJ>>
               ELSE IF bot
               THEN gvValid' = TRUE /\ GvContinue
               ELSE IF ~listed
               THEN GvReturn("listing the organisations") /\ UNCHANGED <<gvValid, gvI, gvJ>>
               ELSE /\ gvValid' = (gvValid \/ (gvCfg.PipeLineServer = gvServer.URL
                                               /\ gvCfg.PipeLineUsername = username))
                    /\ GvContinue
    /\ UNCHANGED <<gvCfg, gvN, gvServer, gvOthers>>

\* after the loop
GvVerdict ==
    /\ gvPc = "verdict"
    /\ IF gvValid THEN GvReturn("nil") ELSE GvReturn("pipeline user not valid")
    /\ UNCHANGED <<gvCfg, gvN, gvI, gvServer, gvJ, gvValid, gvSeen, gvOthers>>

GvNext ==
    \/ GvSetup
    \/ GvServer
    \/ GvUser
    \/ GvVerdict

----------------------------------------------------------------------------
(* step verify ingress: StepVerifyIngressOptions.Run *)

\* the suffixes of the automated DNS domains of the config package
NipIo == <<".", "n", "i", "p", ".", "i", "o">>
XipIo == <<".", "x", "i", "p", ".", "i", "o">>
AutoDNSSuffixes == {NipIo, XipIo}

\* IngressConfig.IsAutoDNSDomain
IsAutoDNSDomain(domain) == \E suffix \in AutoDNSSuffixes : HasSuffix(domain, suffix)

\* the domains of the model: two automated ones, and two that are not, of
\* which one ends with ".io" and one has ".nip.io" in front
Domains == {<<"1">> \o NipIo, <<"1">> \o XipIo, <<"a", ".", "i", "o">>, NipIo \o <<".", "a">>}

\* TLS email addresses, and whether mail.ParseAddress accepts them
Emails == {"", "jx", "jx@example.com"}
ParseAddress(email) == email = "jx@example.com"

IngressInputs ==
    [Domain : Domains \cup {<<>>}, TLS : BOOLEAN, Email : Emails,
     Provider : {"", GKE, EKS}, ExternalDNS : BOOLEAN, IgnoreLoadBalancer : BOOLEAN]
NoIngress ==
    [Domain |-> <<>>, TLS |-> FALSE, Email |-> "", Provider |-> "", ExternalDNS |-> FALSE,
     IgnoreLoadBalancer |-> FALSE]

IgInit ==
    /\ igIn \in IngressInputs
    /\ igReq = igIn
    /\ igLazy = FALSE
    /\ igPc = "start"
    /\ igSaves = <<>>
    /\ igResult = "none"

IgIdle ==
    /\ igIn = NoIngress
    /\ igReq = NoIngress
    /\ igLazy = FALSE
    /\ igPc = "idle"
    /\ igSaves = <<>>
    /\ igResult = "none"

IgReturn(err) == igPc' = "returned" /\ igResult' = err
IgGoto(pc) == igPc' = pc /\ UNCHANGED igResult

\* Run up to the ingress domain: the directory, the requirements, o.LazyCreate
IgSetup ==
    /\ igPc = "start"
    /\ \E failAt \in {"none", "getwd", "load", "lazyCreate"}, lazy \in BOOLEAN :
        IF failAt # "none"
        THEN IgReturn(failAt) /\ UNCHANGED igLazy
        ELSE IgGoto("discover") /\ igLazy' = lazy
    /\ UNCHANGED <<igIn, igReq, igSaves, igOthers>>

\* discoverIngressDomain, when the requirements have no domain: unless the load
\* balancer is ignored the domain is asked for, once more after the ingress
\* controller got a host, and saved
IgDiscover ==
    /\ igPc = "discover"
    /\ IF igReq.Domain # <<>> \/ igReq.IgnoreLoadBalancer
       THEN IgGoto("externaldns") /\ UNCHANGED <<igReq, igSaves>>
       ELSE \E failAt \in {"none", "kubeClient", "getDomain", "waitForHost", "getDomain2", "save"},
               first \in Domains \cup {<<>>}, hasHost \in BOOLEAN, second \in Domains \cup {<<>>} :
            LET domain == IF first # <<>> THEN first ELSE IF hasHost THEN second ELSE <<>>
            IN  IF \/ failAt \in {"kubeClient", "getDomain"}
                   \/ first = <<>> /\ failAt = "waitForHost"
                   \/ first = <<>> /\ hasHost /\ failAt = "getDomain2"
                   \/ domain = <<>>
                THEN IgReturn("failed to discover the Ingress domain")
                     /\ UNCHANGED <<igReq, igSaves>>
                ELSE /\ igReq' = [igReq EXCEPT !.Domain = domain]
                     /\ igSaves' = Append(igSaves, "discover")
                     /\ IF failAt = "save"
                        THEN IgReturn("failed to discover the Ingress domain")
                        ELSE IgGoto("externaldns")
    /\ UNCHANGED <<igIn, igLazy, igOthers>>

\* on GKE with a domain of one's own and external DNS: the external-dns secret
\* is validated, created lazily and validated again, and the dns API enabled
IgExternalDNS ==
    /\ igPc = "externaldns"
    /\ IF /\ igReq.Domain # <<>> /\ ~IsAutoDNSDomain(igReq.Domain) /\ igReq.Provider = GKE
          /\ igReq.ExternalDNS
       THEN \E kubeOk \in BOOLEAN, v1 \in BOOLEAN, created \in BOOLEAN, v2 \in BOOLEAN,
               apiOk \in BOOLEAN :
            IF ~kubeOk THEN IgReturn("creating kubernetes client")
            ELSE IF ~v1 /\ igLazy /\ ~created
            THEN IgReturn("creating the ExternalDNS GCP Service Account")
            ELSE IF ~v1 /\ (~igLazy \/ ~v2) THEN IgReturn("validating external-dns secret")
            ELSE IF ~apiOk THEN IgReturn("unable to enable 'dns' api")
            ELSE IgGoto("tls")
       ELSE IgGoto("tls")
    /\ UNCHANGED <<igIn, igReq, igLazy, igSaves, igOthers>>

IgTLSOnlyGKE ==
    /\ igPc = "tls"
    /\ IF igReq.TLS /\ igReq.Provider = GKE /\ IsAutoDNSDomain(igReq.Domain)
       THEN IgReturn("TLS is not supported with automated domains") /\ UNCHANGED igSaves
       ELSE IF igReq.TLS /\ ~ParseAddress(igReq.Email)
       THEN IgReturn("You must provide a valid email address") /\ UNCHANGED igSaves
       ELSE /\ igSaves' = Append(igSaves, "final")
            /\ \E saveOk \in BOOLEAN : IF saveOk THEN IgReturn("nil") ELSE IgReturn("save")
    /\ UNCHANGED <<igIn, igReq, igLazy, igOthers>>

\* TLS needs a domain that is not automated and a valid email address; then the
\* requirements are saved
IgTLS ==
    /\ igPc = "tls"
    /\ IF igReq.TLS /\ IsAutoDNSDomain(igReq.Domain)
       THEN IgReturn("TLS is not supported with automated domains") /\ UNCHANGED igSaves
       ELSE IF igReq.TLS /\ ~ParseAddress(igReq.Email)
       THEN IgReturn("You must provide a valid email address") /\ UNCHANGED igSaves
       ELSE /\ igSaves' = Append(igSaves, "final")
            /\ \E saveOk \in BOOLEAN : IF saveOk THEN IgReturn("nil") ELSE IgReturn("save")
    /\ UNCHANGED <<igIn, igReq, igLazy, igOthers>>

IgNext ==
    \/ IgSetup
    \/ IgDiscover
    \/ IgExternalDNS
    \/ IgTLS

----------------------------------------------------------------------------
(* verifyIngress and SaveConfig of step verify preinstall *)

NoFile == [written |-> FALSE]
\* a file that holds the requirements c, and one a failed write left behind
FileOf(c) == [written |-> TRUE, partial |-> FALSE, content |-> c]
PartialFile == [written |-> TRUE, partial |-> TRUE, content |-> NoIngress]

\* the files as they are when the requirements c have just been loaded
FilesOf(c, helmfile) ==
    [requirements |-> FileOf(c), values |-> IF helmfile THEN FileOf(c) ELSE NoFile]

\* where SaveConfig may fail
SaveOutcomes == {"ok", "marshal", "write", "marshalValues", "writeValues"}

\* SaveConfig: the requirements file is written, and with a helmfile the
\* requirements values file as well; a write that fails may leave a partial file
SaveConfig(c, helmfile, files, outcome, partial) ==
    IF outcome = "marshal" THEN [files |-> files, err |-> "marshal"]
    ELSE IF outcome = "write"
    THEN [files |-> [files EXCEPT !.requirements = IF partial THEN PartialFile ELSE @],
          err |-> "failed to save file"]
    ELSE LET saved == [files EXCEPT !.requirements = FileOf(c)]
         IN  IF ~helmfile THEN [files |-> saved, err |-> ""]
             ELSE IF outcome = "marshalValues" THEN [files |-> saved, err |-> "marshal"]
             ELSE IF outcome = "writeValues"
             THEN [files |-> [saved EXCEPT !.values = IF partial THEN PartialFile ELSE @],
                   err |-> "failed to save file"]
             ELSE [files |-> [saved EXCEPT !.values = FileOf(c)], err |-> ""]

ViInit ==
    /\ viIn \in [req : IngressInputs, Helmfile : BOOLEAN]
    /\ viReq = viIn.req
    /\ viFiles = FilesOf(viIn.req, viIn.Helmfile)
    /\ viSaves = <<>>
    /\ viPc = "verifyIngress"
    /\ viResult = "none"

ViIdle ==
    /\ viIn = [req |-> NoIngress, Helmfile |-> FALSE]
    /\ viReq = NoIngress
    /\ viFiles = [requirements |-> NoFile, values |-> NoFile]
    /\ viSaves = <<>>
    /\ viPc = "idle"
    /\ viResult = "none"

ViVerifyIngressAnyFlag ==
    /\ viPc = "verifyIngress"
    /\ viPc' = "returned"
    /\ IF IsAutoDNSDomain(viReq.Domain)
       THEN \E outcome \in SaveOutcomes, partial \in BOOLEAN :
            LET cleared == [viReq EXCEPT !.Domain = <<>>]
                r == SaveConfig(cleared, viIn.Helmfile, viFiles, outcome, partial)
            IN  /\ viReq' = cleared
                /\ viSaves' = Append(viSaves, cleared)
                /\ viFiles' = r.files
                /\ viResult' = IF r.err # "" THEN "failed to save changes to file" ELSE "nil"
       ELSE viResult' = "nil" /\ UNCHANGED <<viReq, viSaves, viFiles>>
    /\ UNCHANGED <<viIn, viOthers>>

\* verifyIngress: an automated domain is cleared and the requirements saved,
\* unless the load balancer is ignored
ViVerifyIngress ==
    /\ viPc = "verifyIngress"
    /\ viPc' = "returned"
    /\ IF IsAutoDNSDomain(viReq.Domain) /\ ~viReq.IgnoreLoadBalancer
       THEN \E outcome \in SaveOutcomes, partial \in BOOLEAN :
            LET cleared == [viReq EXCEPT !.Domain = <<>>]
                r == SaveConfig(cleared, viIn.Helmfile, viFiles, outcome, partial)
            IN  /\ viReq' = cleared
                /\ viSaves' = Append(viSaves, cleared)
                /\ viFiles' = r.files
                /\ viResult' = IF r.err # "" THEN "failed to save changes to file" ELSE "nil"
       ELSE viResult' = "nil" /\ UNCHANGED <<viReq, viSaves, viFiles>>
    /\ UNCHANGED <<viIn, viOthers>>

ViNext == ViVerifyIngress

----------------------------------------------------------------------------
(* The specifications *)

\* the state in which each command starts, the other commands not running
InitWebhooks == WhInit /\ HkIdle /\ DpIdle /\ PiIdle /\ CmIdle /\ GrIdle /\ VrIdle /\ GvIdle /\ IgIdle /\ ViIdle
InitHook == HkInit /\ DpIdle /\ PiIdle /\ CmIdle /\ GrIdle /\ VrIdle /\ GvIdle /\ IgIdle /\ ViIdle
InitDevPod == DpInit /\ WhIdle /\ HkIdle /\ PiIdle /\ CmIdle /\ GrIdle /\ VrIdle /\ GvIdle /\ IgIdle /\ ViIdle
InitPreInstall == PiInit /\ WhIdle /\ HkIdle /\ DpIdle /\ CmIdle /\ GrIdle /\ VrIdle /\ GvIdle /\ IgIdle /\ ViIdle
InitConfigMaps == CmInit /\ WhIdle /\ HkIdle /\ DpIdle /\ PiIdle /\ GrIdle /\ VrIdle /\ GvIdle /\ IgIdle /\ ViIdle
InitGather == GrInit /\ WhIdle /\ HkIdle /\ DpIdle /\ PiIdle /\ CmIdle /\ VrIdle /\ GvIdle /\ IgIdle /\ ViIdle

InitValidate == VrInit /\ WhIdle /\ HkIdle /\ DpIdle /\ PiIdle /\ CmIdle /\ GrIdle /\ GvIdle /\ IgIdle /\ ViIdle
InitVerifyGit == GvInit /\ WhIdle /\ HkIdle /\ DpIdle /\ PiIdle /\ CmIdle /\ GrIdle /\ VrIdle /\ IgIdle /\ ViIdle
InitIngress == IgInit /\ WhIdle /\ HkIdle /\ DpIdle /\ PiIdle /\ CmIdle /\ GrIdle /\ VrIdle /\ GvIdle /\ ViIdle
InitVerifyIngress == ViInit /\ WhIdle /\ HkIdle /\ DpIdle /\ PiIdle /\ CmIdle /\ GrIdle /\ VrIdle /\ GvIdle /\ IgIdle

SpecWebhooks == InitWebhooks /\ [][WhNext]_vars
SpecHook == InitHook /\ [][HkNext]_vars
SpecPreInstall == InitPreInstall /\ [][PiNext]_vars
SpecConfigMaps == InitConfigMaps /\ [][CmNext]_vars
SpecGather == InitGather /\ [][GrNext]_vars
SpecDevPod == InitDevPod /\ [][DpNext]_vars
SpecValidate == InitValidate /\ [][VrNext]_vars
SpecVerifyGit == InitVerifyGit /\ [][GvNext]_vars
SpecIngress == InitIngress /\ [][IgNext]_vars
SpecVerifyIngress == InitVerifyIngress /\ [][ViNext]_vars
----------------------------------------------------------------------------
(* Properties of update webhooks *)

\* t is s followed by something
IsPrefixOf(s, t) == \E n \in 0..Len(t) : t = s \o SubSeq(t, n + 1, Len(t))
\* s occurs inside t
OccursIn(s, t) ==
    \E i \in 0..Len(t), j \in 1..(Len(t) + 1) :
        t = SubSeq(t, 1, i) \o s \o SubSeq(t, j, Len(t))

\* the webhooks updateRepoHook looked at in the recorded call, the positions of
\* those that match, and the UpdateWebHook and CreateWebHook calls it made
HkHooks == IF hkCall.list.ok THEN hkCall.list.hooks ELSE <<>>
HkMatching ==
    {i \in 1..Len(HkHooks) : MatchesWebhookURL(whO, hkCall.kind, hkCall.url, HkHooks[i].URL)}
HkFirstMatch == CHOOSE i \in HkMatching : \A j \in HkMatching : i <= j
HkUpdates == SelectSeq(hkCall.calls, LAMBDA c : c.op = "UpdateWebHook")
HkCreates == SelectSeq(hkCall.calls, LAMBDA c : c.op = "CreateWebHook")

\* what C2 says of a call of updateRepoHook that got as far as the list of webhooks
HkUpdateOrCreate ==
    /\ ~whO.DryRun /\ HkMatching # {}
        => /\ Len(HkUpdates) = 1
           /\ HkUpdates[1].ID = HkHooks[HkFirstMatch].ID
           /\ Len(HkCreates) = 0
    /\ ~whO.DryRun /\ HkMatching = {}
        => /\ Len(HkCreates) = 1
           /\ Len(HkUpdates) = 0
    /\ whO.DryRun => Len(HkUpdates) = 0 /\ Len(HkCreates) = 0

\* C2 as stated: every call of updateRepoHook with DryRun false makes exactly one
\* UpdateWebHook call, for the first matching hook, and no CreateWebHook call when
\* a hook matches, and exactly one CreateWebHook call and no UpdateWebHook call
\* when none matches or the listing failed; with DryRun true it makes neither call.
C2_AsStated == hkCall.op = "updateRepoHook" => HkUpdateOrCreate

\* C2 amended: the same, for every call in which IsInsecureSSLWebhooks succeeds;
\* when IsInsecureSSLWebhooks fails updateRepoHook returns that error and calls
\* neither UpdateWebHook nor CreateWebHook.
C2_UpdateOrCreate ==
    hkCall.op = "updateRepoHook"
        => /\ hkCall.failAt # "insecure" => HkUpdateOrCreate
           /\ hkCall.failAt = "insecure"
                => hkCall.err # "" /\ Len(HkUpdates) = 0 /\ Len(HkCreates) = 0

\* two hooks match, and the first of them was updated
C2_Witness ==
    /\ hkCall.op = "updateRepoHook"
    /\ ~whO.DryRun
    /\ hkCall.failAt = "none"
    /\ HkMatching = {1, 2}
    /\ hkCall.calls = <<[op |-> "ListWebHooks", ID |-> 0], [op |-> "UpdateWebHook", ID |-> 1]>>

\* C3: matchesWebhookURL answers, in this order of precedence: with a previous
\* hook URL, whether the hook's URL equals it (whatever the git kind and
\* --exact-hook-url-match); else for gitlab, whether the hook's URL starts with
\* the webhook URL; else with --exact-hook-url-match (true by default), whether
\* the hook's URL equals the webhook URL; else whether it contains "hook.jx".
C3_MatchPrecedence ==
    /\ DefaultWebhookOptions.ExactHookMatch
    /\ hkCall.op = "matchesWebhookURL"
        => LET prev == whO.PreviousHookUrl
               gitlab == hkCall.kind = "gitlab"
           IN  /\ prev # <<>> => (hkCall.answer <=> hkCall.hookURL = prev)
               /\ prev = <<>> /\ gitlab
                    => (hkCall.answer <=> IsPrefixOf(hkCall.url, hkCall.hookURL))
               /\ prev = <<>> /\ ~gitlab /\ whO.ExactHookMatch
                    => (hkCall.answer <=> hkCall.hookURL = hkCall.url)
               /\ prev = <<>> /\ ~gitlab /\ ~whO.ExactHookMatch
                    => (hkCall.answer <=> OccursIn(HookJx, hkCall.hookURL))

\* the previous hook URL decides against the gitlab prefix rule
C3_Witness ==
    /\ hkCall.op = "matchesWebhookURL"
    /\ whO.PreviousHookUrl = UrlOld
    /\ hkCall.kind = "gitlab"
    /\ hkCall.url = UrlA
    /\ hkCall.hookURL = UrlALong
    /\ ~hkCall.answer

\* C4: with --warn-on-fail a failure to update the webhook of a repository is
\* not returned, the loop goes on to the later repositories, and Run returns nil
\* after the last of them; without it Run returns the error of the first failure
\* at once, so that no later repository is handled.
C4_WarnOnFail ==
    /\ whO.WarnOnFail /\ whLast.failed
        => /\ whLast.err = ""
           /\ whIdx = whLast.idx
           /\ whPc = "loop" \/ (whPc = "done" /\ whIdx = whN)
    /\ whO.WarnOnFail /\ whPc = "done" /\ whResult # "setup failed"
        => whResult = "nil" /\ whIdx = whN
    /\ ~whO.WarnOnFail /\ whLast.failed
        => /\ whPc = "done"
           /\ whResult = whLast.err
           /\ whResult \notin {"nil", "none"}
           /\ whIdx = whLast.idx - 1
    /\ whPc = "done" /\ whResult \notin {"nil", "setup failed"}
        => ~whO.WarnOnFail /\ whLast.failed
    /\ whPc = "done" /\ whResult = "nil" => whIdx = whN

\* the first of two repositories failed and the loop goes on
C4_Witness ==
    /\ whO.WarnOnFail
    /\ whN = 2
    /\ whLast.idx = 1
    /\ whLast.failed
    /\ whPc = "loop"

\* C5: UpdateWebhookForSourceRepository makes no git provider call and returns
\* (false, nil) when the repository's org differs from a non-empty --owner, or
\* its name from a non-empty --repo, or it is a remote environment repository;
\* with both filters empty ensureWebHookCreated is called for every repository
\* that is not a remote environment repository.
C5_Filtered ==
    whLast.idx > 0
        => LET sr == whLast.sr
               skipped == \/ whO.Org # "" /\ sr.Org # whO.Org
                          \/ whO.Repo # "" /\ sr.Repo # whO.Repo
                          \/ sr.Remote
           IN  /\ skipped => whLast.calls = <<>> /\ ~whLast.ok /\ whLast.err = "" /\ ~whLast.failed
               /\ whO.Org = "" /\ whO.Repo = "" /\ ~sr.Remote => whLast.ok \/ whLast.failed

\* a repository of another name than --repo was skipped
C5_Witness ==
    /\ whLast.idx > 0
    /\ whO.Org = ""
    /\ whO.Repo = "r1"
    /\ whLast.sr.Repo = "r2"
    /\ ~whLast.sr.Remote
    /\ whLast.calls = <<>>
----------------------------------------------------------------------------
(* Properties of create devpod *)

DpCreateCalls == {"Pods.Create", "PersistentVolumeClaims.Create", "Services.Create"}
DpCallsMade == {dpCalls[i] : i \in 1..Len(dpCalls)}

\* C1: with --reuse, findDevPodBySelector is asked first for the pods of the
\* user with the git labels of the import URL, then for the pods of the user
\* with the pod template label; it answers the first pod of the list that has
\* no deletion timestamp and whose local-dir annotation is the local directory
\* with --sync and empty without, and nil when there is none; when it answers a
\* pod, Run takes the name of that pod, and calls neither Pods.Create nor the
\* creation of a PersistentVolumeClaim or of a Service.
C1_ReuseDevPod ==
    /\ dpFind.n > 0
        => LET l == dpFind.podsList
               matchDir == IF dpO.Sync THEN dpDir ELSE ""
               eligible == {i \in 1..Len(l) : ~l[i].deleting /\ l[i].localDir = matchDir}
           IN  /\ dpO.Reuse
               /\ dpFind.n = 1
                    => dpFind.matchLabels = ("git" :> dpImportURL) @@ ("user" :> UserName)
               /\ dpFind.n = 2
                    => dpFind.matchLabels = ("tmpl" :> dpLabel) @@ ("user" :> UserName)
               /\ eligible = {} => dpFind.answer = NoPod /\ dpCreate
               /\ eligible # {}
                    => /\ \E i \in eligible :
                            (\A j \in eligible : i <= j) /\ dpFind.answer = l[i]
                       /\ ~dpCreate
                       /\ dpName = dpFind.answer.name
    /\ ~dpCreate
        => /\ dpO.Reuse
           /\ dpName = dpPod.name
           /\ dpName # ""
           /\ DpCallsMade \cap DpCreateCalls = {}

\* the search by pod template label passed over a pod and answered the second one
C1_Witness ==
    /\ dpFind.n = 2
    /\ Len(dpFind.podsList) = 2
    /\ dpFind.answer = dpFind.podsList[2]
    /\ ~dpCreate
    /\ dpName = "devpod2"

\* C6: with --sync, --persist and --import-url are rejected: Run returns an
\* error without having created a kube client, and so without any call that
\* creates or changes a pod, a PersistentVolumeClaim or a Service.
C6_FlagsRejected ==
    dpO.Sync /\ (dpO.Persist \/ dpO.ImportURL # "") /\ dpPc # "start"
        => /\ dpPc = "done"
           /\ dpResult \in {"cannot specify --persist and --sync",
                            "cannot specify --import-url && --sync"}
           /\ dpCalls = <<>>

\* --persist with --sync and no --import-url was rejected
C6_Witness ==
    /\ dpO.Sync /\ dpO.Persist /\ dpO.ImportURL = ""
    /\ dpPc = "done"
    /\ dpResult = "cannot specify --persist and --sync"
    /\ dpCalls = <<>>
----------------------------------------------------------------------------
(* Properties of step verify preinstall *)

Last(log) == log[Len(log)]
Creations == {"Cok", "Cfail", "Cnone"}
Validations == {"Vok", "Vfail"}

\* what holds of every secret step of Run, in the words of C7 but for the
\* creation that fails: log is what the step has done, applies whether it is to
\* be done at all, step its position in Run, and the last two the errors it returns
SecretStep(log, applies, step, validateErr, createErr) ==
    /\ log # <<>> => applies /\ log[1] \in Validations
    /\ (applies /\ PiRank[piPc] > PiRank[step]) => log # <<>> /\ Last(log) = "Vok"
    /\ (log # <<>> /\ log[1] = "Vok") => log = <<"Vok">>
    /\ (log # <<>> /\ log[1] = "Vfail" /\ ~piLazy) =>
            log = <<"Vfail">> /\ piPc = step /\ piResult = validateErr
    /\ (log # <<>> /\ log[1] = "Vfail" /\ piLazy) =>
            /\ Len(log) \in {2, 3}
            /\ log[2] \in Creations
            /\ log[2] = "Cfail" => Len(log) = 2 /\ piPc = step /\ piResult = createErr
            /\ log[2] # "Cfail" => Len(log) = 3 /\ log[3] \in Validations
            /\ (Len(log) = 3 /\ log[3] = "Vfail") => piPc = step /\ piResult = validateErr

\* C7 as stated: on GKE, for the Kaniko secret and for the Velero secret, when
\* the first validation fails and lazy create is enabled, creation is attempted
\* once and then validation is re-run
C7_AsStated ==
    \A log \in {piKaniko, piVelero} :
        (log # <<>> /\ log[1] = "Vfail" /\ piLazy) =>
            Len(log) = 3 /\ log[2] \in Creations /\ log[3] \in Validations

\* C7, amended: on GKE, for the Kaniko secret (when requirements.Kaniko) and for
\* the Velero secret (when a Velero namespace is set): if the first validation
\* succeeds no creation is attempted; if it fails and lazy create is disabled Run
\* returns the validation error without attempting creation; if it fails and lazy
\* create is enabled creation is attempted once, Run returns the error of a
\* creation that fails without validating again, validation is re-run otherwise,
\* and Run continues past the step only if the last validation succeeded
C7_LazyCreateSecrets ==
    /\ SecretStep(piKaniko, piReq.Kaniko /\ piReq.Provider = GKE, "kaniko",
                  "validateKaniko", "lazyCreateKaniko")
    /\ SecretStep(piVelero, piReq.VeleroNamespace # "" /\ piReq.Provider = GKE, "velero",
                  "validateVelero", "lazyCreateVelero")

C7_Witness ==
    /\ piLazy
    /\ piKaniko = <<"Vfail", "Cok", "Vok">>
    /\ piVelero = <<"Vfail", "Cok", "Vok">>
    /\ piResult = "nil"

\* C8 as stated: Run returns nil ("Cluster looks good") only if
\* verifyDevNamespace succeeded, on the first attempt or on the check made again
\* after the namespace was lazily created; when verifyDevNamespace fails and lazy
\* create is disabled, Run returns an error
C8_AsStated ==
    piResult = "nil" => (piDevNs # <<>> /\ Last(piDevNs) = "Vok")

----------------------------------------------------------------------------
(* Properties of verifyProwConfigMaps *)

\* verifyConfigMapExists has returned nil for the i-th ConfigMap
CmReturnedNil(i) == (i = 1 /\ cmIdx = 2) \/ cmResult = "nil"

\* after a nil return the ConfigMap exists and has the key, with the value of
\* its first writer, which is the default value if that was the verifier;
\* an error is returned only after a failed Create followed by a failed Get, or
\* after a failed Update; a failed Create followed by a Get that succeeds
\* is not an error
CmReturns ==
    /\ \A i \in {1, 2} :
        CmReturnedNil(i) =>
            /\ cmStore[i].exists /\ cmStore[i].has
            /\ cmStore[i].value = cmFirst[i].value
            /\ cmFirst[i].by = "verifier" => cmStore[i].value = CmDefaults[i]
    /\ cmResult \notin {"none", "nil"} =>
            LET ops == cmOps[cmIdx]
            IN  \/ Len(ops) >= 2 /\ SubSeq(ops, Len(ops) - 1, Len(ops)) = <<"Cfail", "G2fail">>
                \/ Last(ops) = "Ufail"
    /\ \A i \in {1, 2} :
        (Len(cmOps[i]) >= 3 /\ cmOps[i][2] = "Cfail" /\ cmOps[i][3] = "G2ok"
            /\ Last(cmOps[i]) # "Ufail" /\ cmIdx = i)
          => cmResult \in {"none", "nil"}

\* a value that is under the key stays
CmKeeps ==
    \A i \in {1, 2} :
        cmStore[i].has => cmStore'[i].has /\ cmStore'[i].value = cmStore[i].value

\* C9: verifyConfigMapExists tolerates a concurrent creator: a Create that fails
\* because another process created the ConfigMap is followed by a second Get and
\* is no failure; it fails only when the Create and the second Get both fail or
\* when the Update fails; when it returns nil the ConfigMap exists and has the
\* key, with the value that was there first and the default value otherwise,
\* and no step overwrites a value
C9_ConcurrentCreator == [](CmReturns) /\ [][CmKeeps]_vars

C9_Witness ==
    /\ cmOps[2] = <<"Gfail", "Cfail", "G2ok">>
    /\ cmFirst[2] = [by |-> "other", value |-> CmOtherValue]
    /\ cmOps[1] = <<"Gok", "Uok">>
    /\ cmResult = "nil"

----------------------------------------------------------------------------
(* Properties of gatherRequirements *)

\* one of the values batch mode needs is missing from the requirements
MissingInBatch(req) ==
    \/ req.Provider = ""
    \/ req.Provider \in {EKS, AWS} /\ req.Region = ""
    \/ req.Provider = GKE /\ (req.ProjectID = "" \/ req.Zone = "")
    \/ req.EnvironmentGitOwner = ""
    \/ req.ClusterName = ""

\* C10: in batch mode, when the provider, the region on EKS or AWS, the project
\* or the zone on GKE, the environmentGitOwner or the clusterName is missing,
\* gatherRequirements returns an error, the requirements file is not saved and
\* no cluster is connected to
C10_BatchMissing ==
    (grIn.BatchMode /\ MissingInBatch(grIn.req)) =>
        /\ ~grSaved /\ ~grConnected
        /\ grPc # "batch" => (grPc = "returned" /\ grResult \notin {"none", "nil"}
                                /\ grReq = grIn.req)

C10_Witness ==
    /\ grIn.BatchMode
    /\ grIn.req.Provider = GKE /\ grIn.req.ProjectID # "" /\ grIn.req.Zone = ""
    /\ grPc = "returned"
    /\ grResult = "please specify zone"

----------------------------------------------------------------------------
(* Properties of ValidateRequirements *)

\* the repository name C11 gives an environment that has none
ExpectedRepository(clusterName, key) ==
    IF clusterName = <<>>
    THEN ToValidName(EnvironmentPrefix \o key)
    ELSE ToValidName(EnvironmentPrefix \o clusterName \o Dash \o key)

\* an environment of the requirements passed in has no repository name
SomeRepositoryMissing == \E i \in 1..Len(vrIn.Environments) : vrIn.Environments[i].Repository = <<>>

\* C11: after ValidateRequirements returns nil every environment has a
\* repository name that is not empty: the one it had, or, if it had none, the
\* valid name made of "environment-<clusterName>-<key>", and of
\* "environment-<key>" when the cluster name is empty; the file is saved for
\* this reason only if a repository name was filled in
C11_RepositoryNames ==
    /\ vrResult = "nil" =>
        /\ Len(vrReq.Environments) = Len(vrIn.Environments)
        /\ \A i \in 1..Len(vrIn.Environments) :
            LET before == vrIn.Environments[i]
                after == vrReq.Environments[i]
            IN  /\ after.Key = before.Key
                /\ after.Repository # <<>>
                /\ before.Repository # <<>> => after.Repository = before.Repository
                /\ before.Repository = <<>> =>
                        after.Repository = ExpectedRepository(vrIn.ClusterName, before.Key)
    /\ (\E k \in 1..Len(vrSaves) : vrSaves[k] = "environments") => SomeRepositoryMissing

C11_Witness ==
    /\ vrResult = "nil"
    /\ vrIn.ClusterName = <<"C", "_">>
    /\ vrIn.Environments = <<[Key |-> <<"d">>, Repository |-> <<>>],
                             [Key |-> <<>>, Repository |-> <<"r">>]>>
    /\ vrReq.Environments[1].Repository =
            <<"e", "n", "v", "i", "r", "o", "n", "m", "e", "n", "t", "-", "c", "-", "d">>
    /\ vrSaves = <<"environments">>

\* prow is asked for with a git kind or a git server that is not GitHub
ProwNotGitHub(req) ==
    /\ req.Webhook = WebhookTypeProw
    /\ \/ req.GitKind # "" /\ req.GitKind # "github"
       \/ req.GitServer # "" /\ ~IsGitHubServerURL(req.GitServer)

\* C12: when the webhook is prow and the git kind is neither empty nor
\* "github", or the git server neither empty nor a GitHub server URL,
\* ValidateRequirements returns an error, the requirements are not modified and
\* the file is not saved; with any other webhook no git kind and no git server
\* is an error
C12_ProwOnlyGitHub ==
    vrPc \notin {"idle", "prow"} =>
        IF ProwNotGitHub(vrIn)
        THEN /\ vrPc = "returned" /\ vrResult = "invalid requirements"
             /\ vrReq = vrIn /\ vrSaves = <<>>
        ELSE /\ vrResult # "invalid requirements"
             /\ (vrResult \notin {"none", "nil"}) => vrSaves # <<>>

C12_Witness ==
    /\ vrIn.Webhook = WebhookTypeProw
    /\ vrIn.GitKind = "gitlab"
    /\ vrIn.GitServer = "https://github.com/"
    /\ vrIn.Environments # <<>> /\ SomeRepositoryMissing
    /\ vrResult = "invalid requirements"

----------------------------------------------------------------------------
(* Properties of step verify git *)

\* the name ends with "[bot]"
EndsWithBot(name) ==
    \E n \in 0..Len(name) : name = SubSeq(name, 1, n) \o <<"[", "b", "o", "t", "]">>

\* the user validates the pipeline user: its provider's current user name ends
\* with "[bot]", or it is the pipeline user and its organisations were listed
Validates(p) ==
    /\ p.created
    /\ \/ EndsWithBot(p.current)
       \/ /\ p.server = gvCfg.PipeLineServer /\ p.user = gvCfg.PipeLineUsername
          /\ p.listed

----------------------------------------------------------------------------
(* Properties of step verify ingress *)

\* C14: whenever TLS is enabled and the ingress domain is an automated DNS
\* domain, whatever the provider, and whenever TLS is enabled and the TLS email
\* is no valid address, Run returns an error and does not make the final save
\* of the requirements file
C14_TLSRejected ==
    (igReq.TLS /\ (IsAutoDNSDomain(igReq.Domain) \/ ~ParseAddress(igReq.Email))) =>
        /\ igResult # "nil"
        /\ \A k \in 1..Len(igSaves) : igSaves[k] # "final"
        /\ igPc = "returned" => igResult # "none"

C14_Witness ==
    /\ igReq.TLS /\ igReq.Provider = EKS /\ igReq.Email = "jx@example.com"
    /\ igIn.Domain = <<>>
    /\ igReq.Domain = <<"1">> \o NipIo
    /\ igSaves = <<"discover">>
    /\ igResult = "TLS is not supported with automated domains"

----------------------------------------------------------------------------
(* verifyIngress *)

\* verifyIngress was called with an automated domain and a load balancer
\* that is not ignored
ClearsDomain == IsAutoDNSDomain(viIn.req.Domain) /\ ~viIn.req.IgnoreLoadBalancer

\* C15: verifyIngress clears the ingress domain, that is sets it to the empty
\* string and saves the requirements, exactly when the domain is an automated
\* DNS domain and the load balancer is not ignored; in every other case it
\* leaves the requirements and the files as they were and returns nil
C15_ClearsAutoDomain ==
    viPc = "returned" =>
        IF ClearsDomain
        THEN /\ viReq = [viIn.req EXCEPT !.Domain = <<>>]
             /\ viSaves = <<viReq>>
             /\ viResult = "nil" =>
                    /\ viFiles.requirements = FileOf(viReq)
                    /\ viIn.Helmfile => viFiles.values = FileOf(viReq)
        ELSE /\ viReq = viIn.req
             /\ viSaves = <<>>
             /\ viFiles = FilesOf(viIn.req, viIn.Helmfile)
             /\ viResult = "nil"

C15_Witness ==
    /\ viPc = "returned"
    /\ ClearsDomain
    /\ viReq.Domain = <<>>
    /\ viFiles.requirements = FileOf(viReq)
    /\ viResult = "nil"
====
